---- MODULE Spec2Model ----
(***************************************************************************)
(* Markdown language service: link extraction (MdLinkComputer /           *)
(* MdLinkProvider), selection ranges (MdSelectionRangeProvider), rename   *)
(* (MdRenameProvider) and file rename (MdFileRenameProvider).             *)
(*                                                                         *)
(* A text is a sequence of characters, each a string.  Offsets are        *)
(* 0-based as in the source: the character at offset i of s is s[i + 1].  *)
(***************************************************************************)
EXTENDS Integers, Sequences, FiniteSets, TLC

NL == "\n"
BS == "\\"
\* The backquote character, which a TLA+ string cannot hold.
BT == "BACKTICK"
SQ == "'"
DQ == "\""

\* The characters documents are written in.
Alphabet == {"[", "]", "(", ")", "<", ">", "#", ":", "!", BT, NL, " ", BS,
             "a", "b", "c", "d", "m", "A", "x", "X", "1", "-", "+", "/", ".", "*", "^", "~",
             SQ, DQ}

WordChars  == {"a", "b", "A", "x", "X"}
SpaceChars == {" ", NL}

None == [none |-> TRUE]

FenceMarker == <<"~", "~", "~">>

Min(a, b) == IF a < b THEN a ELSE b
Max(a, b) == IF a > b THEN a ELSE b

\* The value of F at the given values, each of them computed once before F
\* is applied.
Let(a, F(_)) == CHOOSE r \in {F(x) : x \in {a}} : TRUE
Let2(a, b, F(_, _)) == CHOOSE r \in {F(x, y) : x \in {a}, y \in {b}} : TRUE
Let3(a, b, c, F(_, _, _)) ==
    CHOOSE r \in {F(x, y, z) : x \in {a}, y \in {b}, z \in {c}} : TRUE
Let4(a, b, c, d, F(_, _, _, _)) ==
    CHOOSE r \in {F(w, x, y, z) : w \in {a}, x \in {b}, y \in {c}, z \in {d}} : TRUE
Let5(a, b, c, d, e, F(_, _, _, _, _)) ==
    CHOOSE r \in {F(v, w, x, y, z) : v \in {a}, w \in {b}, x \in {c}, y \in {d}, z \in {e}} : TRUE

(***************************************************************************)
(* Strings                                                                 *)
(***************************************************************************)
\* s.slice(from, to) with 0-based offsets, to exclusive.
Slice(s, from, to) ==
    IF to <= from THEN <<>> ELSE SubSeq(s, from + 1, Min(to, Len(s)))

StartsWith(s, p) == Len(s) >= Len(p) /\ SubSeq(s, 1, Len(p)) = p

\* s.indexOf(c) for a single character c; -1 when absent.
IndexOfChar(s, c) ==
    IF \E i \in 1..Len(s) : s[i] = c
    THEN (CHOOSE i \in 1..Len(s) : s[i] = c /\ \A j \in 1..(i - 1) : s[j] # c) - 1
    ELSE -1

\* s.indexOf(p) for a string p; -1 when absent.
IndexOf(s, p) ==
    LET hits == {i \in 0..(Len(s) - Len(p)) : Slice(s, i, i + Len(p)) = p}
    IN IF hits = {} THEN -1 ELSE CHOOSE i \in hits : \A j \in hits : i <= j

\* s.trim()
TrimStartIdx(s) ==
    IF \E i \in 1..Len(s) : s[i] \notin SpaceChars
    THEN CHOOSE i \in 1..Len(s) : s[i] \notin SpaceChars /\ \A j \in 1..(i - 1) : s[j] \in SpaceChars
    ELSE Len(s) + 1
TrimEndIdx(s) ==
    IF \E i \in 1..Len(s) : s[i] \notin SpaceChars
    THEN CHOOSE i \in 1..Len(s) : s[i] \notin SpaceChars /\ \A j \in (i + 1)..Len(s) : s[j] \in SpaceChars
    ELSE 0
Trim(s) == SubSeq(s, TrimStartIdx(s), TrimEndIdx(s))

ToLowerChar(c) == IF c = "A" THEN "a" ELSE IF c = "X" THEN "x" ELSE c
ToLower(s) == [i \in 1..Len(s) |-> ToLowerChar(s[i])]

(***************************************************************************)
(* Positions and ranges (types/position.ts, types/range.ts) and the       *)
(* document's offset arithmetic (ITextDocument).                          *)
(***************************************************************************)
Pos(l, c) == [line |-> l, character |-> c]
Rng(s, e) == [start |-> s, end |-> e]

isBefore(p, q) == p.line < q.line \/ (p.line = q.line /\ p.character < q.character)
isBeforeOrEqual(p, q) == ~isBefore(q, p)
arePositionsEqual(p, q) == p.line = q.line /\ p.character = q.character

translatePosition(p, lineDelta, characterDelta) ==
    Pos(p.line + lineDelta, p.character + characterDelta)

positionInRange(r, p) == ~isBefore(p, r.start) /\ ~isBefore(r.end, p)
rangeContains(r, o) == positionInRange(r, o.start) /\ positionInRange(r, o.end)
areRangesEqual(r, o) == arePositionsEqual(r.start, o.start) /\ arePositionsEqual(r.end, o.end)
modifyRange(r, start, end) ==
    Rng(IF start = None THEN r.start ELSE start, IF end = None THEN r.end ELSE end)

\* Offsets at which the lines of s start.
LineStarts(s) == {0} \cup {i \in 1..Len(s) : s[i] = NL}
LineCount(s) == Cardinality(LineStarts(s))

positionAt(s, offset) ==
    LET o  == Max(0, Min(offset, Len(s)))
        ls == {i \in LineStarts(s) : i <= o}
        st == CHOOSE i \in ls : \A j \in ls : j <= i
    IN Pos(Cardinality(ls) - 1, o - st)

LineStartOffset(s, line) ==
    LET ls == LineStarts(s)
    IN CHOOSE i \in ls : Cardinality({j \in ls : j < i}) = line

\* getLine(document, line): the text of the line, without its line break.
getLine(s, line) ==
    IF line < 0 \/ line >= LineCount(s) THEN <<>>
    ELSE LET st  == LineStartOffset(s, line)
             nls == {i \in (st + 1)..Len(s) : s[i] = NL}
             en  == IF nls = {} THEN Len(s) ELSE (CHOOSE i \in nls : \A j \in nls : i <= j) - 1
         IN Slice(s, st, en)

offsetAt(s, p) ==
    IF p.line >= LineCount(s) THEN Len(s)
    ELSE IF p.line < 0 THEN 0
    ELSE LET st == LineStartOffset(s, p.line)
             nx == IF p.line + 1 < LineCount(s) THEN LineStartOffset(s, p.line + 1) ELSE Len(s)
         IN Max(st, Min(st + p.character, nx))

getText(s, r) == Slice(s, offsetAt(s, r.start), offsetAt(s, r.end))

(***************************************************************************)
(* Regular expressions.  A pattern is a tree of records; Match gives the  *)
(* results of matching it at offset i in the order a backtracking matcher *)
(* tries them, each result the end offset and the capture groups.         *)
(***************************************************************************)
NoCap == <<-1, -1>>
Caps0 == <<NoCap, NoCap, NoCap, NoCap>>

Cls(set)      == [t |-> "cls", set |-> set]
Lit(c)        == Cls({c})
NotCls(set)   == Cls(Alphabet \ set)
Dot           == NotCls({NL})
Cat(rs)       == [t |-> "cat", rs |-> rs]
Alt(rs)       == [t |-> "alt", rs |-> rs]
Star(r)       == [t |-> "star", r |-> r, lazy |-> FALSE]
LazyStar(r)   == [t |-> "star", r |-> r, lazy |-> TRUE]
Plus(r)       == Cat(<<r, Star(r)>>)
LazyPlus(r)   == Cat(<<r, LazyStar(r)>>)
Opt(r)        == Alt(<<r, Cat(<<>>)>>)
Grp(k, r)     == [t |-> "grp", k |-> k, r |-> r]
BackRef(k)    == [t |-> "bref", k |-> k]
NotBehind(set) == [t |-> "nlb", set |-> set]
NotAhead(set)  == [t |-> "nla", set |-> set]
LineStart     == [t |-> "bol"]
LineEnd       == [t |-> "eol"]

RECURSIVE Match(_, _, _, _), MatchCat(_, _, _, _, _), MatchAlt(_, _, _, _, _),
          MatchStar(_, _, _, _), Continue(_, _, _, _, _), ContinueStar(_, _, _, _)

\* Every result in rs, continued by the patterns rest[k..].
Continue(rs, rest, k, s, n) ==
    IF n > Len(rs) THEN <<>>
    ELSE MatchCat(rest, k, s, rs[n][1], rs[n][2]) \o Continue(rs, rest, k, s, n + 1)

MatchCat(rest, k, s, i, caps) ==
    IF k > Len(rest) THEN << <<i, caps>> >>
    ELSE Continue(Match(rest[k], s, i, caps), rest, k + 1, s, 1)

MatchAlt(rs, k, s, i, caps) ==
    IF k > Len(rs) THEN <<>>
    ELSE Match(rs[k], s, i, caps) \o MatchAlt(rs, k + 1, s, i, caps)

\* Every result in rs (one iteration), continued by further iterations.
ContinueStar(rs, r, s, n) ==
    IF n > Len(rs) THEN <<>>
    ELSE MatchStar(r, s, rs[n][1], rs[n][2]) \o ContinueStar(rs, r, s, n + 1)

MatchStar(r, s, i, caps) ==
    LET once == SelectSeq(Match(r.r, s, i, caps), LAMBDA x : x[1] > i)
        more == ContinueStar(once, r, s, 1)
    IN IF r.lazy THEN << <<i, caps>> >> \o more ELSE more \o << <<i, caps>> >>

Match(r, s, i, caps) ==
    CASE r.t = "cls"  -> IF i < Len(s) /\ s[i + 1] \in r.set THEN << <<i + 1, caps>> >> ELSE <<>>
      [] r.t = "cat"  -> MatchCat(r.rs, 1, s, i, caps)
      [] r.t = "alt"  -> MatchAlt(r.rs, 1, s, i, caps)
      [] r.t = "star" -> MatchStar(r, s, i, caps)
      [] r.t = "grp"  -> LET in == Match(r.r, s, i, caps)
                         IN [n \in 1..Len(in) |-> <<in[n][1], [in[n][2] EXCEPT ![r.k] = <<i, in[n][1]>>]>>]
      [] r.t = "bref" -> LET g == Slice(s, caps[r.k][1], caps[r.k][2])
                         IN IF Slice(s, i, i + Len(g)) = g /\ i + Len(g) <= Len(s)
                            THEN << <<i + Len(g), caps>> >> ELSE <<>>
      [] r.t = "nlb"  -> IF i > 0 /\ s[i] \in r.set THEN <<>> ELSE << <<i, caps>> >>
      [] r.t = "nla"  -> IF i < Len(s) /\ s[i + 1] \in r.set THEN <<>> ELSE << <<i, caps>> >>
      [] r.t = "bol"  -> IF i = 0 \/ s[i] = NL THEN << <<i, caps>> >> ELSE <<>>
      [] r.t = "eol"  -> IF i = Len(s) \/ s[i + 1] = NL THEN << <<i, caps>> >> ELSE <<>>

\* The match a search from offset "from" finds, or None.
RECURSIVE Exec(_, _, _)
Exec(r, s, from) ==
    IF from > Len(s) THEN None
    ELSE Let(Match(r, s, from, Caps0), LAMBDA ms :
             IF ms # <<>> THEN [index |-> from, end |-> ms[1][1], caps |-> ms[1][2]]
             ELSE Exec(r, s, from + 1))

\* s.matchAll(r) for a global pattern r.
RECURSIVE MatchAllFrom(_, _, _)
MatchAllFrom(r, s, from) ==
    Let(Exec(r, s, from), LAMBDA m :
        IF m = None THEN <<>>
        ELSE <<m>> \o MatchAllFrom(r, s, IF m.end = m.index THEN m.end + 1 ELSE m.end))
MatchAll(r, s) == MatchAllFrom(r, s, 0)

\* match[0] and match[k] as text, and whether group k took part.
MatchText(s, m) == Slice(s, m.index, m.end)
HasGroup(m, k) == m.caps[k] # NoCap
GroupText(s, m, k) == Slice(s, m.caps[k][1], m.caps[k][2])

(***************************************************************************)
(* The patterns of the link computer.                                      *)
(***************************************************************************)
Spaces == Star(Cls(SpaceChars))

\* /^<(.*)>$/
angleBracketLinkRe == Cat(<<Lit("<"), Grp(1, Star(Dot)), Lit(">")>>)

IsAngleBracketed(link) ==
    \E n \in 1..Len(Match(angleBracketLinkRe, link, 0, Caps0)) :
        Match(angleBracketLinkRe, link, 0, Caps0)[n][1] = Len(link)

stripAngleBrackets(link) ==
    IF IsAngleBracketed(link) THEN Slice(link, 1, Len(link) - 1) ELSE link

\* Matches [text](link) or [text](<link>)
linkPattern ==
    Cat(<<
        NotBehind({BS}),
        Grp(1, Cat(<<Opt(Lit("!")), Lit("["),
                     Star(Alt(<<NotCls({"[", "]", BS}),
                                Cat(<<Lit(BS), Dot>>),
                                Cat(<<Lit("["), Star(NotCls({"[", "]"})), Lit("]")>>)>>)),
                     Lit("]")>>)),
        Grp(2, Cat(<<Lit("("), Spaces>>)),
        Grp(3, Alt(<<
            Cat(<<NotCls(SpaceChars \cup {"(", ")", "<"}),
                  Star(Alt(<<NotCls(SpaceChars \cup {"(", ")"}),
                             Cat(<<Lit("("), LazyStar(NotCls(SpaceChars \cup {"(", ")"})), Lit(")")>>)>>))>>),
            Cat(<<Lit("<"),
                  Plus(Alt(<<Cat(<<Lit(BS), Cls({"<", ">"})>>), NotCls({"<", ">"})>>)),
                  Lit(">")>>)>>)),
        Spaces,
        Opt(Grp(4, Alt(<<
            Cat(<<Lit(DQ), Star(NotCls({DQ})), Lit(DQ)>>),
            Cat(<<Lit(SQ), Star(NotCls({SQ})), Lit(SQ)>>),
            Cat(<<Lit("("), Star(NotCls({"(", ")"})), Lit(")")>>)>>))),
        Spaces,
        Lit(")")>>)

\* referenceLinkPattern whose [shorthand] may start with "!".
referenceLinkPatternWithBang ==
    Cat(<<
        NotBehind({"]", BS}),
        Alt(<<
            Cat(<<
                Grp(1, Cat(<<Opt(Lit("!")), Lit("["),
                             Grp(2, Star(Alt(<<Cat(<<Lit(BS), Dot>>),
                                               NotCls({"[", "]", BS}),
                                               Cat(<<Lit("["), Star(NotCls({"[", "]"})), Lit("]")>>)>>))),
                             Lit("]"), Lit("["), Spaces>>)),
                Grp(3, LazyStar(Alt(<<NotCls({BS, "]"}), Cat(<<Lit(BS), Dot>>)>>))),
                Lit("]")>>),
            Cat(<<Lit("["), Spaces,
                  Grp(4, LazyPlus(Alt(<<Cat(<<Lit(BS), Dot>>), NotCls({"[", "]", BS})>>))),
                  Spaces, Lit("]")>>)>>),
        NotAhead({"("})>>)

\* Matches [text][ref] or [shorthand] or [shorthand][]
\* groups: 1 prefix, 2 text, 3 ref, 4 shorthand
referenceLinkPattern ==
    Cat(<<
        NotBehind({"]", BS}),
        Alt(<<
            Cat(<<
                Grp(1, Cat(<<Opt(Lit("!")), Lit("["),
                             Grp(2, Star(Alt(<<Cat(<<Lit(BS), Dot>>),
                                               NotCls({"[", "]", BS}),
                                               Cat(<<Lit("["), Star(NotCls({"[", "]"})), Lit("]")>>)>>))),
                             Lit("]"), Lit("["), Spaces>>)),
                Grp(3, LazyStar(Alt(<<NotCls({BS, "]"}), Cat(<<Lit(BS), Dot>>)>>))),
                Lit("]")>>),
            Cat(<<Lit("["), NotAhead({"!"}), Spaces,
                  Grp(4, LazyPlus(Alt(<<Cat(<<Lit(BS), Dot>>), NotCls({"[", "]", BS})>>))),
                  Spaces, Lit("]")>>)>>),
        NotAhead({"("})>>)

\* Matches <http://example.com>        groups: 1 the link
autoLinkPattern ==
    Cat(<<NotBehind({BS}), Lit("<"),
          Grp(1, Cat(<<Plus(Cls(WordChars)), Lit(":"), Plus(NotCls({">"} \cup SpaceChars))>>)),
          Lit(">")>>)

\* Matches [text]: link                groups: 1 pre, 2 reference, 3 link
definitionPattern ==
    Cat(<<
        LineStart,
        Grp(1, Cat(<<Star(Cls({" "})), NotBehind({BS}), Lit("["), NotAhead({"^"}),
                     Grp(2, Plus(Alt(<<Cat(<<Lit(BS), Lit("]")>>), NotCls({"]"})>>))),
                     Lit("]"), Lit(":"), Star(Cls({" "}))>>)),
        Grp(3, Alt(<<
            Cat(<<NotCls({"<"}), Star(NotCls(SpaceChars))>>),
            Cat(<<Lit("<"),
                  Plus(Alt(<<Cat(<<Lit(BS), Cls({"<", ">"})>>), NotCls({"<", ">"})>>)),
                  Lit(">")>>)>>))>>)

\* Inline code spans: N backticks closed by N backticks, possibly over
\* several lines.                       groups: 1 the opening backticks
inlineCodePattern ==
    Cat(<<
        NotBehind({BT}),
        Grp(1, Plus(Lit(BT))),
        Grp(2, Cat(<<
            Alt(<<LazyPlus(Dot),
                  Cat(<<LazyStar(Dot), LazyStar(Cat(<<Lit(NL), LazyPlus(Dot)>>))>>)>>),
            Opt(Lit(NL)),
            BackRef(1)>>)),
        NotAhead({BT})>>)

(***************************************************************************)
(* Paths and URIs (path.posix, vscode-uri).  Every URI has the scheme      *)
(* 'file'; a URI is the sequence of the segments of its path, and the      *)
(* workspace folder is the root.                                           *)
(***************************************************************************)
\* text.split(sep)
Split(text, sep) ==
    LET at       == {i \in 1..Len(text) : text[i] = sep}
        Bound(k) == IF k = 0 THEN 0
                    ELSE IF k > Cardinality(at) THEN Len(text) + 1
                    ELSE CHOOSE i \in at : Cardinality({j \in at : j < i}) = k - 1
    IN [k \in 1..(Cardinality(at) + 1) |-> SubSeq(text, Bound(k - 1) + 1, Bound(k) - 1)]

\* The segments of a path text.
Segments(pathText) == SelectSeq(Split(pathText, "/"), LAMBDA seg : seg # <<>>)

\* The segments joined by slashes.
RECURSIVE JoinSegments(_)
JoinSegments(segs) ==
    IF segs = <<>> THEN <<>>
    ELSE IF Len(segs) = 1 THEN segs[1]
    ELSE segs[1] \o <<"/">> \o JoinSegments(Tail(segs))

\* uri.path
PathText(uri) == <<"/">> \o JoinSegments(uri)

\* path.posix.normalize on segments: '.' is dropped and '..' drops the
\* segment before it.
RECURSIVE Normalize(_, _)
Normalize(segs, acc_) ==
    Let(acc_, LAMBDA acc :
        IF segs = <<>> THEN acc
        ELSE IF Head(segs) = <<".">> THEN Normalize(Tail(segs), acc)
        ELSE IF Head(segs) = <<".", ".">>
        THEN Normalize(Tail(segs), IF acc = <<>> THEN <<>> ELSE SubSeq(acc, 1, Len(acc) - 1))
        ELSE Normalize(Tail(segs), Append(acc, Head(segs))))

\* Utils.joinPath(uri, pathText), Utils.dirname(uri), Utils.extname(uri)
joinPath(uri, pathText) == Normalize(uri \o Segments(pathText), <<>>)
dirname(uri) == IF uri = <<>> THEN <<>> ELSE SubSeq(uri, 1, Len(uri) - 1)
extname(uri) ==
    IF uri = <<>> THEN <<>>
    ELSE LET name == uri[Len(uri)]
             dots == {i \in 2..Len(name) : name[i] = "."}
         IN IF dots = {} THEN <<>>
            ELSE SubSeq(name, CHOOSE i \in dots : \A j \in dots : j <= i, Len(name))

\* path.posix.relative(from.path, to.path)
relative(from, to) ==
    LET common == {n \in 0..Min(Len(from), Len(to)) : SubSeq(from, 1, n) = SubSeq(to, 1, n)}
        shared == CHOOSE n \in common : \A k \in common : k <= n
    IN JoinSegments([i \in 1..(Len(from) - shared) |-> <<".", ".">>]
                    \o SubSeq(to, shared + 1, Len(to)))

isSameResource(a, b) == a = b
isParentDir(parent, maybeChild) ==
    Len(maybeChild) > Len(parent) /\ SubSeq(maybeChild, 1, Len(parent)) = parent

\* The configuration has the single Markdown file extension md, and no
\* path of the workspace is excluded.
MarkdownExtension == <<".", "m", "d">>
looksLikeMarkdownUri(uri) == ToLower(extname(uri)) = MarkdownExtension
isExcludedPath(uri) == FALSE

(***************************************************************************)
(* Hrefs                                                                   *)
(***************************************************************************)
SchemeChars == {"a", "b", "A", "x", "X", "-"}

\* /^[a-z\-][a-z\-]+:/i
LooksLikeUri(link) ==
    \E k \in 3..Len(link) : link[k] = ":" /\ \A j \in 1..(k - 1) : link[j] \in SchemeChars

\* URI.parse rejects a scheme that does not start with a word character and
\* a path that starts with two slashes when there is no authority.
UriParseThrows(link) ==
    LET colon == IndexOfChar(link, ":")
        rest  == Slice(link, colon + 1, Len(link))
    IN \/ link[1] = "-"
       \/ StartsWith(rest, <<"/", "/", "/", "/">>)

\* resolveInternalDocumentLink: the text before the first '#' is a path, which
\* is the source document itself when empty, is joined with the workspace
\* folder when it starts with '/', and with the directory of the source
\* document otherwise; the text after the '#' is the fragment.
resolveInternalDocumentLink(sourceDocUri, linkText) ==
    LET hash     == IndexOfChar(linkText, "#")
        pathText == IF hash < 0 THEN linkText ELSE Slice(linkText, 0, hash)
    IN [resource     |-> IF pathText = <<>> THEN sourceDocUri
                         ELSE IF pathText[1] = "/" THEN joinPath(<<>>, pathText)
                         ELSE joinPath(dirname(sourceDocUri), pathText),
        linkFragment |-> IF hash < 0 THEN <<>> ELSE Slice(linkText, hash + 1, Len(linkText))]

createHref(sourceDocUri, link) ==
    IF LooksLikeUri(link)
    THEN IF UriParseThrows(link) THEN None ELSE [kind |-> "External", uri |-> link]
    ELSE LET resolved == resolveInternalDocumentLink(sourceDocUri, link)
         IN [kind |-> "Internal", path |-> resolved.resource, fragment |-> resolved.linkFragment]

getFragmentRange(text, start, end) ==
    LET index == IndexOfChar(text, "#")
    IN IF index < 0 THEN None ELSE Rng(translatePosition(start, 0, index + 1), end)

getLinkSourceFragmentInfo(document, link, linkStart, linkEnd) ==
    LET fragmentRange == getFragmentRange(link, linkStart, linkEnd)
    IN [hrefPathText |-> getText(document, Rng(linkStart,
                            IF fragmentRange # None
                            THEN translatePosition(fragmentRange.start, 0, -1)
                            ELSE linkEnd)),
        hrefFragmentRange |-> fragmentRange]

MkLink(resource, kind, href, hrefText, range, targetRange, hrefRange, isAngle, fragInfo, titleRange, ref) ==
    [kind |-> kind, href |-> href, ref |-> ref,
     source |-> [resource |-> resource, hrefText |-> hrefText, range |-> range, targetRange |-> targetRange,
                 hrefRange |-> hrefRange, isAngleBracketLink |-> isAngle,
                 hrefPathText |-> fragInfo.hrefPathText,
                 hrefFragmentRange |-> fragInfo.hrefFragmentRange,
                 titleRange |-> titleRange]]

createMdLink(resource, document, targetText, preHrefText, rawLink, matchIndex, fullMatch, titleMatch) ==
    LET isAngleBracketLink == StartsWith(rawLink, <<"<">>)
        link            == stripAngleBrackets(rawLink)
        linkTarget      == createHref(resource, link)
        pre             == targetText \o preHrefText
        linkStartOffset == matchIndex
        linkStart       == positionAt(document, linkStartOffset)
        linkEnd         == positionAt(document, linkStartOffset + Len(fullMatch))
        targetStart     == positionAt(document, linkStartOffset + Len(targetText))
        targetRange     == Rng(targetStart, linkEnd)
        hrefStartOffset == linkStartOffset + Len(pre) + (IF isAngleBracketLink THEN 1 ELSE 0)
        hrefStart       == positionAt(document, hrefStartOffset)
        hrefEnd         == positionAt(document, hrefStartOffset + Len(link))
        hrefRange       == Rng(hrefStart, hrefEnd)
        indexOfTitleInLink == IndexOf(fullMatch, titleMatch)
        titleStartOffset   == linkStartOffset + indexOfTitleInLink
        titleRange ==
            IF titleMatch # <<>> /\ indexOfTitleInLink >= 0
            THEN Rng(positionAt(document, titleStartOffset),
                     positionAt(document, titleStartOffset + Len(titleMatch)))
            ELSE None
    IN IF linkTarget = None THEN None
       ELSE MkLink(resource, "Link", linkTarget, link, Rng(linkStart, linkEnd), targetRange, hrefRange,
                   isAngleBracketLink,
                   getLinkSourceFragmentInfo(document, link, hrefStart, hrefEnd),
                   titleRange, None)

(***************************************************************************)
(* NoLinkRanges                                                            *)
(***************************************************************************)
\* A block token of the tokenizer: its type and its lines [map[1], map[2]).
Token(type, from, to) == [type |-> type, map |-> <<from, to>>]

\* InlineRanges: for each line, the ranges registered for it.
InlineRangesCreate(document) == [line \in 0..(LineCount(document) - 1) |-> {}]

InlineRangesAdd(map, range) ==
    [line \in DOMAIN map |->
        IF range.start.line <= line /\ line <= range.end.line
        THEN map[line] \cup {range} ELSE map[line]]

RECURSIVE InlineRangesAddAll(_, _, _)
InlineRangesAddAll(map, ranges, n) ==
    IF n > Len(ranges) THEN map
    ELSE InlineRangesAddAll(InlineRangesAdd(map, ranges[n]), ranges, n + 1)

\* InlineRanges.concat: the new map.
InlineRangesConcat(map, newRanges) == InlineRangesAddAll(map, newRanges, 1)

\* InlineRanges.concat copies the map but not the arrays it holds: a line that
\* already had an array shares it with the copy, and so sees what is added.
InlineRangesAfterConcat(map, newRanges) ==
    LET result == InlineRangesConcat(map, newRanges)
    IN [line \in DOMAIN map |-> IF map[line] # {} THEN result[line] ELSE map[line]]

NoLinkTokenTypes == {"code_block", "fence", "html_block"}

NoLinkRangesCompute(tokens, document) ==
    LET ms == MatchAll(inlineCodePattern, document)
        spans == [n \in 1..Len(ms) |->
                    Rng(positionAt(document, ms[n].index), positionAt(document, ms[n].end))]
    IN [multiline |-> {tokens[k] : k \in {n \in 1..Len(tokens) : tokens[n].type \in NoLinkTokenTypes}},
        inline    |-> InlineRangesAddAll(InlineRangesCreate(document), spans, 1)]

NoLinkRangesContains(nlr, position, excludeType) ==
    \/ \E t \in nlr.multiline :
          t.type # excludeType /\ position.line >= t.map[1] /\ position.line < t.map[2]
    \/ /\ position.line \in DOMAIN nlr.inline
       /\ \E inlineRange \in nlr.inline[position.line] : positionInRange(inlineRange, position)

concatInline(nlr, inlineRanges) ==
    [multiline |-> nlr.multiline, inline |-> InlineRangesConcat(nlr.inline, inlineRanges)]

\* The receiver of concatInline once the call has returned.
NoLinkRangesAfterConcat(nlr, inlineRanges) ==
    [multiline |-> nlr.multiline, inline |-> InlineRangesAfterConcat(nlr.inline, inlineRanges)]

(***************************************************************************)
(* MdLinkComputer                                                          *)
(***************************************************************************)
RECURSIVE getReferenceLinksInText(_, _, _, _, _), ReferenceLinksOfMatches(_, _, _, _, _, _, _)

\* /^\s*[\-\*\+]\s*\[x\]/i             the length of the match, or -1
CheckboxMatchLength(line) ==
    LET re == Cat(<<Spaces, Cls({"-", "*", "+"}), Spaces, Lit("["), Cls({"x", "X"}), Lit("]")>>)
        ms == Match(re, line, 0, Caps0)
    IN IF ms = <<>> THEN -1 ELSE ms[1][1]

\* The links one match of referenceLinkPattern yields.
ReferenceLinksOfMatch(resource, document, text, startingOffset, noLinkRanges, m) ==
    LET linkStartOffset == startingOffset + m.index
        linkStart       == positionAt(document, linkStartOffset)
        match0          == MatchText(text, m)
        isImage         == StartsWith(match0, <<"!">>)
        linkEnd         == translatePosition(linkStart, 0, Len(match0))
        Yield(reference, hrefStart, hrefEnd) ==
            << MkLink(resource, "Link", [kind |-> "Reference", ref |-> reference], reference,
                      Rng(linkStart, linkEnd),
                      Rng(translatePosition(hrefStart, 0, -1), translatePosition(hrefEnd, 0, 1)),
                      Rng(hrefStart, hrefEnd), FALSE,
                      [hrefPathText |-> reference, hrefFragmentRange |-> None],
                      None, None) >>
    IN IF NoLinkRangesContains(noLinkRanges, linkStart, "") THEN <<>>
       ELSE IF HasGroup(m, 3) /\ GroupText(text, m, 3) = <<>>
       THEN \* [ref][]
            LET reference == Trim(GroupText(text, m, 2))
                offset    == linkStartOffset + 1
            IN IF reference = <<>> THEN <<>>
               ELSE Yield(reference, positionAt(document, offset),
                          positionAt(document, offset + Len(reference)))
       ELSE IF HasGroup(m, 3)
       THEN \* [text][ref]
            LET reference == GroupText(text, m, 3)
                linkText  == GroupText(text, m, 2)
                offset    == linkStartOffset + Len(GroupText(text, m, 1))
            IN IF linkText = <<>> /\ ~isImage THEN <<>>
               ELSE (IF ~isImage
                     THEN getReferenceLinksInText(resource, document, linkText, linkStartOffset + 1, noLinkRanges)
                     ELSE <<>>)
                    \o Yield(reference, positionAt(document, offset),
                             positionAt(document, offset + Len(reference)))
       ELSE IF HasGroup(m, 4)
       THEN \* [ref]
            LET reference == Trim(GroupText(text, m, 4))
                offset    == linkStartOffset + 1
                hrefStart == positionAt(document, offset)
                line      == getLine(document, hrefStart.line)
                checkbox  == CheckboxMatchLength(line)
            IN IF reference = <<>> THEN <<>>
               ELSE IF linkStart.character = 0 /\ Len(match0) < Len(line) /\ line[Len(match0) + 1] = ":"
               THEN <<>>
               ELSE IF checkbox >= 0 /\ hrefStart.character <= checkbox THEN <<>>
               ELSE Yield(reference, hrefStart, positionAt(document, offset + Len(reference)))
       ELSE <<>>

ReferenceLinksOfMatches(resource, document, text, startingOffset, noLinkRanges, ms, n) ==
    IF n > Len(ms) THEN <<>>
    ELSE ReferenceLinksOfMatch(resource, document, text, startingOffset, noLinkRanges, ms[n])
         \o ReferenceLinksOfMatches(resource, document, text, startingOffset, noLinkRanges, ms, n + 1)

getReferenceLinksInText(resource, document, text, startingOffset, noLinkRanges) ==
    ReferenceLinksOfMatches(resource, document, text, startingOffset, noLinkRanges,
                            MatchAll(referenceLinkPattern, text), 1)

getReferenceLinks(resource, document, noLinkRanges) ==
    getReferenceLinksInText(resource, document, document, 0, noLinkRanges)

\* /\![\[\(]/.test(text)
HasImageMark(text) ==
    \E i \in 1..(Len(text) - 1) : text[i] = "!" /\ text[i + 1] \in {"[", "("}

LinkOfMatch(resource, document, text, offset, m) ==
    createMdLink(resource, document, GroupText(text, m, 1), GroupText(text, m, 2), GroupText(text, m, 3),
                 offset + m.index, MatchText(text, m),
                 IF HasGroup(m, 4) THEN GroupText(text, m, 4) ELSE <<>>)

\* The image links in the text of an inline link.
RECURSIVE InnerLinks(_, _, _, _, _, _)
InnerLinks(resource, document, linkText, startOffset, ms, n) ==
    IF n > Len(ms) THEN <<>>
    ELSE Let(LinkOfMatch(resource, document, linkText, startOffset, ms[n]), LAMBDA innerData :
             (IF innerData # None THEN <<innerData>> ELSE <<>>)
             \o InnerLinks(resource, document, linkText, startOffset, ms, n + 1))

\* The links one match of linkPattern yields.
InlineLinksOfMatch(resource, document, noLinkRanges, m) ==
    LET linkTextIncludingBrackets == GroupText(document, m, 1)
        linkText      == Slice(linkTextIncludingBrackets, 1, Len(linkTextIncludingBrackets) - 1)
        startOffset   == m.index + 1
    IN Let(LinkOfMatch(resource, document, document, 0, m), LAMBDA matchLinkData :
       IF matchLinkData = None THEN <<>>
       ELSE IF NoLinkRangesContains(noLinkRanges, matchLinkData.source.hrefRange.start, "") THEN <<>>
       ELSE <<matchLinkData>>
            \o (IF HasImageMark(linkTextIncludingBrackets)
                THEN InnerLinks(resource, document, linkText, startOffset, MatchAll(linkPattern, linkText), 1)
                     \o getReferenceLinksInText(resource, document, linkText, startOffset, noLinkRanges)
                ELSE <<>>))

RECURSIVE InlineLinksOfMatches(_, _, _, _, _)
InlineLinksOfMatches(resource, document, noLinkRanges, ms, n) ==
    IF n > Len(ms) THEN <<>>
    ELSE InlineLinksOfMatch(resource, document, noLinkRanges, ms[n])
         \o InlineLinksOfMatches(resource, document, noLinkRanges, ms, n + 1)

getInlineLinks(resource, document, noLinkRanges) ==
    InlineLinksOfMatches(resource, document, noLinkRanges, MatchAll(linkPattern, document), 1)

AutoLinkOfMatch(resource, document, noLinkRanges, m) ==
    LET linkStart  == positionAt(document, m.index)
        link       == GroupText(document, m, 1)
        linkTarget == createHref(resource, link)
        linkEnd    == translatePosition(linkStart, 0, m.end - m.index)
        hrefStart  == translatePosition(linkStart, 0, 1)
        hrefEnd    == translatePosition(hrefStart, 0, Len(link))
        hrefRange  == Rng(hrefStart, hrefEnd)
    IN IF NoLinkRangesContains(noLinkRanges, linkStart, "") THEN <<>>
       ELSE IF linkTarget = None THEN <<>>
       ELSE IF linkTarget.kind # "External" THEN <<>>
       ELSE << MkLink(resource, "AutoLink", linkTarget, link, Rng(linkStart, linkEnd), hrefRange, hrefRange,
                      FALSE, getLinkSourceFragmentInfo(document, link, hrefStart, hrefEnd),
                      None, None) >>

RECURSIVE AutoLinksOfMatches(_, _, _, _, _)
AutoLinksOfMatches(resource, document, noLinkRanges, ms, n) ==
    IF n > Len(ms) THEN <<>>
    ELSE AutoLinkOfMatch(resource, document, noLinkRanges, ms[n])
         \o AutoLinksOfMatches(resource, document, noLinkRanges, ms, n + 1)

getAutoLinks(resource, document, noLinkRanges) ==
    AutoLinksOfMatches(resource, document, noLinkRanges, MatchAll(autoLinkPattern, document), 1)

DefinitionOfMatch(resource, document, noLinkRanges, m) ==
    LET linkStart   == positionAt(document, m.index)
        pre         == GroupText(document, m, 1)
        reference   == GroupText(document, m, 2)
        rawLinkText == Trim(GroupText(document, m, 3))
        isAngleBracketLink == IsAngleBracketed(rawLinkText)
        linkText    == stripAngleBrackets(rawLinkText)
        target      == createHref(resource, linkText)
        hrefStart   == translatePosition(linkStart, 0, Len(pre) + (IF isAngleBracketLink THEN 1 ELSE 0))
        hrefEnd     == translatePosition(hrefStart, 0, Len(linkText))
        hrefRange   == Rng(hrefStart, hrefEnd)
        refStart    == translatePosition(linkStart, 0, 1)
        refRange    == Rng(refStart, translatePosition(refStart, 0, Len(reference)))
        line        == getLine(document, linkStart.line)
        linkEnd     == translatePosition(linkStart, 0, Len(line))
    IN IF NoLinkRangesContains(noLinkRanges, linkStart, "") THEN <<>>
       ELSE IF target = None THEN <<>>
       ELSE << MkLink(resource, "Definition", target, linkText, Rng(linkStart, linkEnd), hrefRange, hrefRange,
                      isAngleBracketLink,
                      getLinkSourceFragmentInfo(document, rawLinkText, hrefStart, hrefEnd),
                      None, [text |-> reference, range |-> refRange]) >>

RECURSIVE DefinitionsOfMatches(_, _, _, _, _)
DefinitionsOfMatches(resource, document, noLinkRanges, ms, n) ==
    IF n > Len(ms) THEN <<>>
    ELSE DefinitionOfMatch(resource, document, noLinkRanges, ms[n])
         \o DefinitionsOfMatches(resource, document, noLinkRanges, ms, n + 1)

getLinkDefinitions(resource, document, noLinkRanges) ==
    DefinitionsOfMatches(resource, document, noLinkRanges, MatchAll(definitionPattern, document), 1)

SourceRanges(ls) == [n \in 1..Len(ls) |-> ls[n].source.range]

\* getAllLinks, once the tokenizer has answered and no cancellation was asked.
getAllLinks(resource, document, tokens) ==
    Let(NoLinkRangesCompute(tokens, document), LAMBDA noLinkRanges :
    Let(getInlineLinks(resource, document, noLinkRanges), LAMBDA inlineLinks :
    Let2(concatInline(noLinkRanges, SourceRanges(inlineLinks)),
         NoLinkRangesAfterConcat(noLinkRanges, SourceRanges(inlineLinks)),
         LAMBDA forReferences, afterConcat :
            inlineLinks
            \o getReferenceLinks(resource, document, forReferences)
            \o getLinkDefinitions(resource, document, afterConcat)
            \o getAutoLinks(resource, document, afterConcat))))

(***************************************************************************)
(* MdLinkProvider                                                          *)
(***************************************************************************)
\* LinkDefinitionSet.lookup: the first Definition link, in the order of the
\* links, whose name is ref when both are lower-cased.
lookup(allLinks, ref) ==
    LET named == {n \in 1..Len(allLinks) :
                    /\ allLinks[n].kind = "Definition"
                    /\ ToLower(allLinks[n].ref.text) = ToLower(ref)}
    IN IF named = {} THEN None
       ELSE allLinks[CHOOSE n \in named : \A k \in named : n <= k]

\* The document has a URI without fragment, so the command is the URI of
\* the document with the fragment L<line + 1>,<character + 1>.
createOpenAtPosCommand(pos) ==
    [fragmentLine |-> pos.line + 1, fragmentCharacter |-> pos.character + 1]

\* toValidDocumentLink with the target of a reference at the start of the
\* whole definition instead of the start of its href.
toValidDocumentLinkAtDefinitionStart(link, allLinks) ==
    CASE link.href.kind = "External" ->
            [range |-> link.source.hrefRange, target |-> [uri |-> link.href.uri], data |-> None]
      [] link.href.kind = "Internal" ->
            [range |-> link.source.hrefRange, target |-> None, data |-> link]
      [] link.href.kind = "Reference" ->
            LET def == lookup(allLinks, link.href.ref)
            IN IF def = None THEN None
               ELSE [range  |-> link.source.hrefRange,
                     target |-> createOpenAtPosCommand(def.source.range.start),
                     data   |-> link]

toValidDocumentLink(link, allLinks) ==
    CASE link.href.kind = "External" ->
            [range |-> link.source.hrefRange, target |-> [uri |-> link.href.uri], data |-> None]
      [] link.href.kind = "Internal" ->
            [range |-> link.source.hrefRange, target |-> None, data |-> link]
      [] link.href.kind = "Reference" ->
            LET def == lookup(allLinks, link.href.ref)
            IN IF def = None THEN None
               ELSE [range  |-> link.source.hrefRange,
                     target |-> createOpenAtPosCommand(def.source.hrefRange.start),
                     data   |-> link]

RECURSIVE coalesce(_)
coalesce(xs) ==
    IF xs = <<>> THEN <<>>
    ELSE IF Head(xs) = None THEN coalesce(Tail(xs))
    ELSE <<Head(xs)>> \o coalesce(Tail(xs))

\* provideDocumentLinks that gives a reference link without a definition a
\* document link without a target.
provideDocumentLinksOfAllLinks(allLinks, isCancellationRequested) ==
    IF isCancellationRequested THEN <<>>
    ELSE [n \in 1..Len(allLinks) |->
            IF toValidDocumentLink(allLinks[n], allLinks) = None
            THEN [range |-> allLinks[n].source.hrefRange, target |-> None, data |-> allLinks[n]]
            ELSE toValidDocumentLink(allLinks[n], allLinks)]

provideDocumentLinks(allLinks, isCancellationRequested) ==
    IF isCancellationRequested THEN <<>>
    ELSE coalesce([n \in 1..Len(allLinks) |-> toValidDocumentLink(allLinks[n], allLinks)])
(***************************************************************************)
(* The tokenizer, for documents without indentation: fenced code blocks,   *)
(* headings, bullet lists and paragraphs, each token with the lines        *)
(* [from, to) it covers, in the order of the document.                     *)
(***************************************************************************)
isEmptyOrWhitespace(s) == \A i \in 1..Len(s) : s[i] \in SpaceChars

\* The lines the tokenizer sees: a line break at the end of the text starts
\* no further line.
MdLineCount(document) ==
    IF document = <<>> THEN 0
    ELSE IF document[Len(document)] = NL THEN LineCount(document) - 1
    ELSE LineCount(document)

\* The texts of the lines; line l is Lines(document)[l + 1].
Lines(document) == [n \in 1..MdLineCount(document) |-> getLine(document, n - 1)]

\* A line is in a fence from the line that opens it to the line that closes
\* it, or to the end of the document.
InFence(lines, l) ==
    \/ lines[l + 1] = FenceMarker
    \/ Cardinality({k \in 1..l : lines[k] = FenceMarker}) % 2 = 1

IsFenceOpening(lines, l) ==
    /\ lines[l + 1] = FenceMarker
    /\ Cardinality({k \in 1..l : lines[k] = FenceMarker}) % 2 = 0

LineKind(lines, l) ==
    IF IsFenceOpening(lines, l) THEN "fence_open"
    ELSE IF InFence(lines, l) THEN "fence"
    ELSE IF StartsWith(lines[l + 1], <<"#", " ">>) THEN "heading1"
    ELSE IF StartsWith(lines[l + 1], <<"#", "#", " ">>) THEN "heading2"
    ELSE IF isEmptyOrWhitespace(lines[l + 1]) THEN "blank"
    ELSE IF StartsWith(lines[l + 1], <<"-", " ">>) THEN "item"
    ELSE "text"

\* The kinds of the lines; the kind of line l is LineKinds(lines)[l + 1].
LineKinds(lines) == [n \in 1..Len(lines) |-> LineKind(lines, n - 1)]

HeadingLevel(kinds, l) ==
    CASE kinds[l + 1] = "heading1" -> 1
      [] kinds[l + 1] = "heading2" -> 2
      [] OTHER -> 0
IsHeading(kinds, l) == HeadingLevel(kinds, l) > 0

\* First line from m on whose kind is not in skipped; the line count if none.
SkipWhile(kinds, m, skipped) ==
    LET rest == {x \in m..(Len(kinds) - 1) : kinds[x + 1] \notin skipped}
    IN IF rest = {} THEN Len(kinds) ELSE CHOOSE x \in rest : \A y \in rest : x <= y

\* A paragraph runs over the text lines that follow its first line; a list
\* item is its paragraph and the blank lines after it; a list is a run of
\* items; a fence runs to the line that closes it.
ParagraphEnd(kinds, l) == SkipWhile(kinds, l + 1, {"text"})
ItemEnd(kinds, l) == SkipWhile(kinds, SkipWhile(kinds, l + 1, {"text"}), {"blank"})
FenceEnd(kinds, l) == SkipWhile(kinds, l + 1, {"fence"})
RECURSIVE ListEnd(_, _)
ListEnd(kinds, l) ==
    Let(ItemEnd(kinds, l), LAMBDA e :
        IF e < Len(kinds) /\ kinds[e + 1] = "item" THEN ListEnd(kinds, e) ELSE e)
IsListStart(kinds, l) ==
    /\ kinds[l + 1] = "item"
    /\ ~\E k \in 0..(l - 1) : kinds[k + 1] = "item" /\ ItemEnd(kinds, k) = l
IsParagraphStart(kinds, l) ==
    /\ kinds[l + 1] = "text"
    /\ l = 0 \/ kinds[l] \in {"fence_open", "fence", "blank", "heading1", "heading2"}

TokensAt(kinds, l) ==
    IF kinds[l + 1] = "fence_open" THEN <<Token("fence", l, FenceEnd(kinds, l))>>
    ELSE IF IsHeading(kinds, l) THEN <<Token("heading_open", l, l + 1), Token("inline", l, l + 1)>>
    ELSE IF kinds[l + 1] = "item" THEN
        (IF IsListStart(kinds, l)
         THEN <<Token("bullet_list_open", l, ListEnd(kinds, l))>> ELSE <<>>)
        \o <<Token("list_item_open", l, ItemEnd(kinds, l)),
             Token("paragraph_open", l, ParagraphEnd(kinds, l)),
             Token("inline", l, ParagraphEnd(kinds, l))>>
    ELSE IF IsParagraphStart(kinds, l) THEN
        <<Token("paragraph_open", l, ParagraphEnd(kinds, l)),
          Token("inline", l, ParagraphEnd(kinds, l))>>
    ELSE <<>>

RECURSIVE TokensFrom(_, _)
TokensFrom(kinds, l) ==
    IF l >= Len(kinds) THEN <<>>
    ELSE TokensAt(kinds, l) \o TokensFrom(kinds, l + 1)

tokenize(document) ==
    Let(LineKinds(Lines(document)), LAMBDA kinds : TokensFrom(kinds, 0))

(***************************************************************************)
(* The table of contents: an entry per heading, with its text, its slug    *)
(* and its section, which runs to the line before the next heading of the  *)
(* same or a lower level, or to the end of the document.                   *)
(***************************************************************************)
Digits == <<"1", "2", "3", "4", "5", "6", "7", "8", "9">>

\* ISlugifier.fromHeading, for headings of letters.
slugify(text) == ToLower(Trim(text))

\* The k-th heading that slugifies to base gets base itself when k = 0 and
\* base-k otherwise.
Slug(base, k) == IF k = 0 THEN base ELSE base \o <<"-", Digits[k]>>

HeadingText(lines, kinds, l) ==
    Trim(Slice(lines[l + 1], HeadingLevel(kinds, l) + 1, Len(lines[l + 1])))

SectionEndLine(document, kinds, l) ==
    LET next == {m \in (l + 1)..(Len(kinds) - 1) :
                    IsHeading(kinds, m) /\ HeadingLevel(kinds, m) <= HeadingLevel(kinds, l)}
    IN IF next = {} THEN LineCount(document) - 1
       ELSE (CHOOSE m \in next : \A k \in next : m <= k) - 1

TocEntry(document, lines, kinds, l) ==
    Let2(SectionEndLine(document, kinds, l), slugify(HeadingText(lines, kinds, l)),
         LAMBDA endLine, base :
        [line  |-> l,
         level |-> HeadingLevel(kinds, l),
         text  |-> HeadingText(lines, kinds, l),
         slug  |-> Slug(base, Cardinality({k \in 0..(l - 1) :
                            IsHeading(kinds, k) /\ slugify(HeadingText(lines, kinds, k)) = base})),
         headerLocation |-> [range |-> Rng(Pos(l, 0), Pos(l, Len(lines[l + 1])))],
         headerTextLocation |->
            [range |-> Rng(Pos(l, HeadingLevel(kinds, l) + 1), Pos(l, Len(lines[l + 1])))],
         sectionLocation |->
            [range |-> Rng(Pos(l, 0),
                           Pos(endLine, IF endLine < Len(lines) THEN Len(lines[endLine + 1]) ELSE 0))]])

RECURSIVE TocFrom(_, _, _, _)
TocFrom(document, lines, kinds, l) ==
    IF l >= Len(kinds) THEN <<>>
    ELSE (IF IsHeading(kinds, l) THEN <<TocEntry(document, lines, kinds, l)>> ELSE <<>>)
         \o TocFrom(document, lines, kinds, l + 1)

\* MdTableOfContentsProvider.getForDocument(document).entries
TocEntries(document) ==
    Let(Lines(document), LAMBDA lines :
        Let(LineKinds(lines), LAMBDA kinds : TocFrom(document, lines, kinds, 0)))

(***************************************************************************)
(* Array.prototype.sort with a comparator that compares keys: stable,     *)
(* ascending.                                                              *)
(***************************************************************************)
SortBy(Key(_), xs_) ==
    Let(xs_, LAMBDA xs :
        LET Rank(i) == Cardinality({j \in 1..Len(xs) :
                           \/ Key(xs[j]) < Key(xs[i])
                           \/ Key(xs[j]) = Key(xs[i]) /\ j < i})
        IN [p \in 1..Len(xs) |-> xs[CHOOSE i \in 1..Len(xs) : Rank(i) = p - 1]])

\* a ?? b ?? ... for selection ranges, the empty chain standing for undefined.
RECURSIVE FirstDefined(_)
FirstDefined(xs) ==
    IF xs = <<>> THEN <<>>
    ELSE IF Head(xs) # <<>> THEN Head(xs)
    ELSE FirstDefined(Tail(xs))

(***************************************************************************)
(* MdSelectionRangeProvider.  A selection range is the chain of its range  *)
(* and the ranges of its ancestors, innermost first; the empty chain is    *)
(* undefined.                                                              *)
(***************************************************************************)
\* makeSelectionRange without the test for a parent with the same range.
makeSelectionRangeAlways(range, parent) == <<range>> \o parent

makeSelectionRange(range_, parent_) ==
    Let2(range_, parent_, LAMBDA range, parent :
        IF parent # <<>> /\ areRangesEqual(parent[1], range) THEN parent
        ELSE <<range>> \o parent)

isList(token) == token.type \in {"ordered_list_open", "list_item_open", "bullet_list_open"}

isBlockElement(token) ==
    token.type \notin {"list_item_close", "paragraph_close", "bullet_list_close",
                       "inline", "heading_close", "heading_open"}

getFirstChildHeader(document, header, entries) ==
    Let(SortBy(LAMBDA t : t.line,
                       SelectSeq(entries, LAMBDA t :
                          /\ rangeContains(header.sectionLocation.range, t.sectionLocation.range)
                          /\ t.sectionLocation.range.start.line > header.sectionLocation.range.start.line)),
        LAMBDA children :
       IF children = <<>> THEN None
       ELSE LET childRange == children[1].sectionLocation.range.start
                lineText   == getLine(document, childRange.line - 1)
            IN translatePosition(childRange, -1, Len(lineText)))

getHeadersForPosition(entries, position) ==
    LET enclosingHeaders == SelectSeq(entries, LAMBDA header :
                               /\ header.sectionLocation.range.start.line <= position.line
                               /\ header.sectionLocation.range.end.line >= position.line)
    IN [headers          |-> SortBy(LAMBDA header : header.line - position.line, enclosingHeaders),
        headerOnThisLine |-> \E n \in 1..Len(entries) : entries[n].line = position.line]

createHeaderRange(header, isClosestHeaderToPosition, onHeaderLine, parent_, startOfChildRange_) ==
    Let2(parent_, startOfChildRange_, LAMBDA parent, startOfChildRange :
    LET range        == header.sectionLocation.range
        contentRange == Rng(translatePosition(range.start, 1, 0), range.end)
    IN IF onHeaderLine /\ isClosestHeaderToPosition /\ startOfChildRange # None
       THEN makeSelectionRange(modifyRange(range, None, startOfChildRange),
                               makeSelectionRange(range, parent))
       ELSE IF onHeaderLine /\ isClosestHeaderToPosition
       THEN makeSelectionRange(range, parent)
       ELSE IF isClosestHeaderToPosition /\ startOfChildRange # None
       THEN makeSelectionRange(modifyRange(contentRange, None, startOfChildRange),
                               makeSelectionRange(contentRange, makeSelectionRange(range, parent)))
       ELSE makeSelectionRange(contentRange, makeSelectionRange(range, parent)))

RECURSIVE HeaderRangesFrom(_, _, _, _, _)
HeaderRangesFrom(document, entries, headerInfo, i_, currentRange_) ==
    Let2(i_, currentRange_, LAMBDA i, currentRange :
        IF i > Len(headerInfo.headers) THEN currentRange
        ELSE HeaderRangesFrom(document, entries, headerInfo, i + 1,
                createHeaderRange(headerInfo.headers[i], i = Len(headerInfo.headers),
                                  headerInfo.headerOnThisLine, currentRange,
                                  getFirstChildHeader(document, headerInfo.headers[i], entries))))

getHeaderSelectionRange(document, position, entries) ==
    Let(getHeadersForPosition(entries, position), LAMBDA headerInfo :
        HeaderRangesFrom(document, entries, headerInfo, 1, <<>>))

\* getBlockTokensForPosition that sorts the smallest block first.
getBlockTokensForPositionAscending(allTokens, position, parent) ==
    LET enclosingTokens == SelectSeq(allTokens, LAMBDA token :
                              /\ token.map[1] <= position.line /\ token.map[2] > position.line
                              /\ \/ parent = <<>>
                                 \/ /\ token.map[1] >= parent[1].start.line
                                    /\ token.map[2] <= parent[1].end.line + 1
                              /\ isBlockElement(token))
    IN SortBy(LAMBDA token : token.map[2] - token.map[1], enclosingTokens)

getBlockTokensForPosition(allTokens, position, parent) ==
    LET enclosingTokens == SelectSeq(allTokens, LAMBDA token :
                              /\ token.map[1] <= position.line /\ token.map[2] > position.line
                              /\ \/ parent = <<>>
                                 \/ /\ token.map[1] >= parent[1].start.line
                                    /\ token.map[2] <= parent[1].end.line + 1
                              /\ isBlockElement(token))
    IN SortBy(LAMBDA token : 0 - (token.map[2] - token.map[1]), enclosingTokens)

\* createFencedRange that gives the content range from three lines on.
createFencedRangeOfThreeLines(token, cursorLine, document, parent_) ==
    Let(parent_, LAMBDA parent :
    LET startLine    == token.map[1]
        endLine      == token.map[2] - 1
        onFenceLine  == cursorLine = startLine \/ cursorLine = endLine
        fenceRange   == Rng(Pos(startLine, 0), Pos(endLine, Len(getLine(document, endLine))))
        contentRange == IF endLine - startLine >= 2 /\ ~onFenceLine
                        THEN Rng(Pos(startLine + 1, 0),
                                 Pos(endLine - 1, Len(getLine(document, endLine - 1))))
                        ELSE None
    IN IF contentRange # None
       THEN makeSelectionRange(contentRange, makeSelectionRange(fenceRange, parent))
       ELSE IF parent # <<>> /\ areRangesEqual(parent[1], fenceRange) THEN parent
       ELSE makeSelectionRange(fenceRange, parent))

createFencedRange(token, cursorLine, document, parent_) ==
    Let(parent_, LAMBDA parent :
    LET startLine    == token.map[1]
        endLine      == token.map[2] - 1
        onFenceLine  == cursorLine = startLine \/ cursorLine = endLine
        fenceRange   == Rng(Pos(startLine, 0), Pos(endLine, Len(getLine(document, endLine))))
        contentRange == IF endLine - startLine > 2 /\ ~onFenceLine
                        THEN Rng(Pos(startLine + 1, 0),
                                 Pos(endLine - 1, Len(getLine(document, endLine - 1))))
                        ELSE None
    IN IF contentRange # None
       THEN makeSelectionRange(contentRange, makeSelectionRange(fenceRange, parent))
       ELSE IF parent # <<>> /\ areRangesEqual(parent[1], fenceRange) THEN parent
       ELSE makeSelectionRange(fenceRange, parent))

createBlockRange(block_, document, cursorLine, parent_) ==
    Let2(block_, parent_, LAMBDA block, parent :
    IF block.type = "fence" THEN createFencedRange(block, cursorLine, document, parent)
    ELSE
    LET startLine0 == IF isEmptyOrWhitespace(getLine(document, block.map[1]))
                      THEN block.map[1] + 1 ELSE block.map[1]
        endLine0   == IF startLine0 = block.map[2] THEN block.map[2] ELSE block.map[2] - 1
        twoLines   == block.type = "paragraph_open" /\ block.map[2] - block.map[1] = 2
        startLine  == IF twoLines THEN cursorLine ELSE startLine0
        endLine    == IF twoLines THEN cursorLine
                      ELSE IF isList(block) /\ isEmptyOrWhitespace(getLine(document, endLine0))
                      THEN endLine0 - 1
                      ELSE endLine0
    IN Let(Rng(Pos(startLine, 0), Pos(endLine, Len(getLine(document, endLine)))), LAMBDA range :
       IF parent # <<>> /\ rangeContains(parent[1], range) /\ ~areRangesEqual(parent[1], range)
       THEN makeSelectionRange(range, parent)
       ELSE IF parent # <<>> /\ areRangesEqual(parent[1], range) THEN parent
       ELSE makeSelectionRange(range, <<>>)))

RECURSIVE BlockRangesFrom(_, _, _, _, _)
BlockRangesFrom(blockTokens, document, cursorLine, i_, currentRange_) ==
    Let2(i_, currentRange_, LAMBDA i, currentRange :
        IF i > Len(blockTokens) THEN currentRange
        ELSE BlockRangesFrom(blockTokens, document, cursorLine, i + 1,
                createBlockRange(blockTokens[i], document, cursorLine, currentRange)))

\* #getBlockSelectionRange that starts from the first block alone, also
\* under a header.
getBlockSelectionRangeOfBlocksAlone(document, position, parent_, allTokens) ==
    Let(getBlockTokensForPosition(allTokens, position, parent_), LAMBDA blockTokens :
        IF blockTokens = <<>> THEN <<>>
        ELSE BlockRangesFrom(Tail(blockTokens), document, position.line, 1,
                 createBlockRange(Head(blockTokens), document, position.line, <<>>)))

getBlockSelectionRange(document, position, parent_, allTokens) ==
    Let(parent_, LAMBDA parent :
    Let(getBlockTokensForPosition(allTokens, position, parent), LAMBDA blockTokens :
        IF blockTokens = <<>> THEN <<>>
        ELSE IF parent # <<>>
        THEN BlockRangesFrom(blockTokens, document, position.line, 1, parent)
        ELSE BlockRangesFrom(Tail(blockTokens), document, position.line, 1,
                 createBlockRange(Head(blockTokens), document, position.line, <<>>))))

\* /\*\*([^*]+\*?[^*]+\*?[^*]+)\*\*/gim
NotStar == NotCls({"*"})
boldRegex ==
    Cat(<<Lit("*"), Lit("*"),
          Grp(1, Cat(<<Plus(NotStar), Opt(Lit("*")), Plus(NotStar), Opt(Lit("*")), Plus(NotStar)>>)),
          Lit("*"), Lit("*")>>)

\* (\*([^*]+)(?:\*\*[^*]*\*\*)*([^*]+)\*)
ItalicGroup ==
    Grp(1, Cat(<<Lit("*"), Grp(2, Plus(NotStar)),
                 Star(Cat(<<Lit("*"), Lit("*"), Star(NotStar), Lit("*"), Lit("*")>>)),
                 Grp(3, Plus(NotStar)), Lit("*")>>))

\* /(?:[^*]+)(...)(?:[^*]+)/g and /^(?:[^*]*)(...)(?:[^*]*)$/g
italicRegexes ==
    << Cat(<<Plus(NotStar), ItalicGroup, Plus(NotStar)>>),
       Cat(<<LineStart, Star(NotStar), ItalicGroup, Star(NotStar), LineEnd>>) >>

\* A backquote, characters other than backquotes, a backquote.
inlineCodeRegex == Cat(<<Lit(BT), Star(NotCls({BT})), Lit(BT)>>)

\* The matches of regex in lineText whose text, where it first occurs in
\* lineText, lies around the cursor.
MatchesAtCursor(regex, lineText, cursorChar) ==
    SelectSeq(MatchAll(regex, lineText), LAMBDA match :
        Let(IndexOf(lineText, MatchText(lineText, match)), LAMBDA at :
            at <= cursorChar /\ at + Len(MatchText(lineText, match)) >= cursorChar))

createBoldRange(lineText, cursorChar, cursorLine, parent_) ==
    Let2(parent_, MatchesAtCursor(boldRegex, lineText, cursorChar), LAMBDA parent, matches :
       IF matches = <<>> THEN <<>>
       ELSE
       Let(MatchText(lineText, matches[1]), LAMBDA bold :
       Let(IndexOf(lineText, bold), LAMBDA startIndex :
       LET cursorOnStars   == cursorChar \in {startIndex, startIndex + 1,
                                              startIndex + Len(bold), startIndex + Len(bold) - 1}
           contentAndStars == makeSelectionRange(
                                 Rng(Pos(cursorLine, startIndex),
                                     Pos(cursorLine, startIndex + Len(bold))), parent)
           content         == makeSelectionRange(
                                 Rng(Pos(cursorLine, startIndex + 2),
                                     Pos(cursorLine, startIndex + Len(bold) - 2)), contentAndStars)
       IN IF cursorOnStars THEN contentAndStars ELSE content)))

\* The matches createOtherInlineRange works with: of the first italic pattern
\* that has any, or of the inline code pattern.
OtherInlineMatches(lineText, cursorChar, isItalic) ==
    IF isItalic
    THEN Let(MatchesAtCursor(italicRegexes[1], lineText, cursorChar), LAMBDA first :
             IF first # <<>> THEN first
             ELSE MatchesAtCursor(italicRegexes[2], lineText, cursorChar))
    ELSE MatchesAtCursor(inlineCodeRegex, lineText, cursorChar)

createOtherInlineRange(lineText, cursorChar, cursorLine, isItalic, parent_) ==
    Let2(parent_, OtherInlineMatches(lineText, cursorChar, isItalic), LAMBDA parent, matches :
       IF matches = <<>> THEN <<>>
       ELSE
       Let(IF isItalic THEN GroupText(lineText, matches[1], 1)
           ELSE MatchText(lineText, matches[1]), LAMBDA match :
       Let(IndexOf(lineText, match), LAMBDA startIndex :
       LET cursorOnType   == cursorChar = startIndex \/ cursorChar = startIndex + Len(match)
           contentAndType == makeSelectionRange(
                                Rng(Pos(cursorLine, startIndex),
                                    Pos(cursorLine, startIndex + Len(match))), parent)
           content        == makeSelectionRange(
                                Rng(Pos(cursorLine, startIndex + 1),
                                    Pos(cursorLine, startIndex + Len(match) - 1)), contentAndType)
       IN IF cursorOnType THEN contentAndType ELSE content)))

createLinkRange(cursorPos, parent_, allLinks) ==
    Let2(parent_, SelectSeq(allLinks, LAMBDA l : positionInRange(l.source.range, cursorPos)),
         LAMBDA parent, linksInRange :
       IF linksInRange = <<>> THEN <<>>
       ELSE
       LET link == linksInRange[Len(linksInRange)]
           fullLinkSelectionRange == makeSelectionRange(link.source.range, parent)
           linkDestRanges ==
               makeSelectionRange(
                   Rng(translatePosition(link.source.targetRange.start, 0, 1),
                       translatePosition(link.source.targetRange.end, 0, -1)),
                   makeSelectionRange(link.source.targetRange, fullLinkSelectionRange))
       IN IF link.kind = "AutoLink"
          THEN makeSelectionRange(link.source.hrefRange, makeSelectionRange(link.source.range, parent))
          ELSE IF link.href.kind = "Reference"
                  /\ areRangesEqual(link.source.targetRange, link.source.range)
          THEN makeSelectionRange(link.source.targetRange, parent)
          ELSE IF positionInRange(link.source.targetRange, cursorPos)
          THEN IF link.kind = "Definition"
               THEN makeSelectionRange(link.source.targetRange, fullLinkSelectionRange)
               ELSE IF link.source.titleRange # None
                       /\ positionInRange(link.source.titleRange, cursorPos)
               THEN makeSelectionRange(link.source.titleRange, linkDestRanges)
               ELSE IF link.source.isAngleBracketLink
                       /\ positionInRange(link.source.hrefRange, cursorPos)
               THEN makeSelectionRange(
                        link.source.hrefRange,
                        makeSelectionRange(
                            Rng(translatePosition(link.source.hrefRange.start, 0, -1),
                                translatePosition(link.source.hrefRange.end, 0, 1)),
                            linkDestRanges))
               ELSE IF link.source.titleRange # None
               THEN makeSelectionRange(link.source.hrefRange, linkDestRanges)
               ELSE linkDestRanges
          ELSE IF link.kind = "Definition"
          THEN makeSelectionRange(
                   Rng(translatePosition(link.source.range.start, 0, 1),
                       translatePosition(link.source.targetRange.start, 0, -3)),
                   fullLinkSelectionRange)
          ELSE makeSelectionRange(
                   Rng(translatePosition(link.source.range.start, 0, 1),
                       translatePosition(link.source.targetRange.start, 0, -1)),
                   fullLinkSelectionRange))

createInlineRange(document, cursorPosition, parent_, allLinks) ==
    Let2(parent_, getLine(document, cursorPosition.line), LAMBDA parent, lineText :
    Let2(createBoldRange(lineText, cursorPosition.character, cursorPosition.line, parent),
         createOtherInlineRange(lineText, cursorPosition.character, cursorPosition.line, TRUE, parent),
         LAMBDA boldSelection, italicSelection :
    Let(IF boldSelection # <<>> /\ italicSelection # <<>>
           /\ ~areRangesEqual(boldSelection[1], italicSelection[1])
        THEN IF rangeContains(boldSelection[1], italicSelection[1])
             THEN createOtherInlineRange(lineText, cursorPosition.character,
                                         cursorPosition.line, TRUE, boldSelection)
             ELSE IF rangeContains(italicSelection[1], boldSelection[1])
             THEN createBoldRange(lineText, cursorPosition.character,
                                  cursorPosition.line, italicSelection)
             ELSE <<>>
        ELSE <<>>,
        LAMBDA comboSelection :
    Let(createLinkRange(cursorPosition,
            FirstDefined(<<comboSelection, boldSelection, italicSelection, parent>>), allLinks),
        LAMBDA linkSelection :
    Let(createOtherInlineRange(lineText, cursorPosition.character, cursorPosition.line,
                               FALSE, FirstDefined(<<linkSelection, parent>>)),
        LAMBDA inlineCodeBlockSelection :
    FirstDefined(<<inlineCodeBlockSelection, linkSelection, comboSelection,
                   boldSelection, italicSelection>>))))))

provideSelectionRange(document, position, entries, allTokens, allLinks) ==
    Let(getHeaderSelectionRange(document, position, entries), LAMBDA headerRange :
    Let(getBlockSelectionRange(document, position, headerRange, allTokens), LAMBDA blockRange :
    Let(createInlineRange(document, position, blockRange, allLinks), LAMBDA inlineRange :
        FirstDefined(<<inlineRange, blockRange, headerRange>>))))


\* coalesce of utils/arrays on the results of the positions: the results
\* that are not undefined, in their order.
coalesceSelectionRanges(ranges) == SelectSeq(ranges, LAMBDA range : range # <<>>)

\* provideSelectionRanges(document, positions, token); every position of a
\* cancelled request gives undefined.
provideSelectionRanges(document, positions, entries, allTokens, allLinks, isCancellationRequested) ==
    coalesceSelectionRanges(
        [n \in 1..Len(positions) |->
            IF isCancellationRequested THEN <<>>
            ELSE provideSelectionRange(document, positions[n], entries, allTokens, allLinks)])
(***************************************************************************)
(* The workspace: a sequence of files, each with its URI, its text and     *)
(* what the caches of the workspace hold for it (table of contents,        *)
(* links).  The directories of the workspace are the proper prefixes of    *)
(* the URIs of its files.                                                  *)
(***************************************************************************)
MdDocument(uri_, fragment, version, text_) ==
    Let3(uri_, text_, tokenize(text_), LAMBDA uri, text, blockTokens :
        [uri |-> uri, fragment |-> fragment, version |-> version, text |-> text,
         toc |-> TocEntries(text),
         links |-> getAllLinks(uri, text, blockTokens)])

FileUris(documents) == {documents[n].uri : n \in 1..Len(documents)}

\* IWorkspace.stat(resource)
stat(documents, resource) ==
    IF resource \in FileUris(documents) THEN [exists |-> TRUE, isDirectory |-> FALSE]
    ELSE IF \E uri \in FileUris(documents) : isParentDir(resource, uri)
    THEN [exists |-> TRUE, isDirectory |-> TRUE]
    ELSE [exists |-> FALSE, isDirectory |-> FALSE]

DocumentAt(documents, resource) ==
    documents[CHOOSE n \in 1..Len(documents) : documents[n].uri = resource]

\* IWorkspace.openMarkdownDocument(resource): only a file with a Markdown
\* extension opens as a document.
CanOpenMarkdownDocument(documents, resource) ==
    resource \in FileUris(documents) /\ looksLikeMarkdownUri(resource)

\* uri.with({ path: uri.path + ext })
appendExtension(uri, ext) ==
    IF uri = <<>> THEN <<ext>>
    ELSE SubSeq(uri, 1, Len(uri) - 1) \o <<uri[Len(uri)] \o ext>>

\* statLinkToMarkdownFile(config, workspace, linkUri): the URI itself when
\* it exists, else the URI with the Markdown extension when the URI has no
\* extension and that one exists.
statLinkToMarkdownFile(documents, linkUri) ==
    IF stat(documents, linkUri).exists THEN [found |-> TRUE, uri |-> linkUri]
    ELSE IF extname(linkUri) = <<>>
            /\ stat(documents, appendExtension(linkUri, MarkdownExtension)).exists
    THEN [found |-> TRUE, uri |-> appendExtension(linkUri, MarkdownExtension)]
    ELSE [found |-> FALSE, uri |-> linkUri]

\* MdWorkspaceInfoCache.values() of the link cache, flattened.
RECURSIVE allLinksInWorkspace(_)
allLinksInWorkspace(documents) ==
    IF documents = <<>> THEN <<>>
    ELSE Head(documents).links \o allLinksInWorkspace(Tail(documents))

\* TableOfContents.lookupByFragment(fragment): the first entry whose slug is
\* the fragment; an exact match.
lookupByFragment(entries, fragment) ==
    LET found == {n \in 1..Len(entries) : entries[n].slug = fragment}
    IN IF found = {} THEN None ELSE entries[CHOOSE n \in found : \A k \in found : n <= k]

(***************************************************************************)
(* MdReferencesProvider: the references to the header or the link at a     *)
(* position, and the references to a file.                                 *)
(***************************************************************************)
MdHeaderReference(uri, header, isTriggerLocation) ==
    [kind |-> "Header", isTriggerLocation |-> isTriggerLocation, isDefinition |-> TRUE,
     location |-> [uri |-> uri, range |-> header.headerLocation.range],
     headerText |-> header.text,
     headerTextLocation |-> [uri |-> uri, range |-> header.headerTextLocation.range]]

MdLinkReference(link, isTriggerLocation, isDefinition, range) ==
    [kind |-> "Link", isTriggerLocation |-> isTriggerLocation, isDefinition |-> isDefinition,
     link |-> link, location |-> [uri |-> link.source.resource, range |-> range]]

\* The link has the place of sourceLink.
IsSourceLink(link, sourceLink) ==
    /\ sourceLink # None
    /\ link.source.resource = sourceLink.source.resource
    /\ areRangesEqual(link.source.hrefRange, sourceLink.source.hrefRange)

\* looksLikeLinkToResource(config, href, targetDoc): the path of the href is
\* the target, or becomes it with the Markdown extension.
looksLikeLinkToResource(href, targetDoc) ==
    \/ href.path = targetDoc
    \/ appendExtension(href.path, MarkdownExtension) = targetDoc

\* The references to a header: the header, and every internal link of the
\* workspace to the document of the header whose fragment is its slug.
getReferencesToHeader(documents, uri, header) ==
    Let(SelectSeq(allLinksInWorkspace(documents), LAMBDA link :
            /\ link.href.kind = "Internal"
            /\ looksLikeLinkToResource(link.href, uri)
            /\ link.href.fragment = header.slug),
        LAMBDA found :
            <<MdHeaderReference(uri, header, TRUE)>>
            \o [n \in 1..Len(found) |->
                    MdLinkReference(found[n], FALSE, FALSE, found[n].source.hrefRange)])

\* The references to a reference name: the definitions of the name and the
\* reference links that use it, in the document.
getReferencesToLinkReference(docLinks, refToFind, from) ==
    Let(SelectSeq(docLinks, LAMBDA link :
            \/ link.kind = "Definition" /\ link.ref.text = refToFind
            \/ link.kind # "Definition" /\ link.href.kind = "Reference"
                                        /\ link.href.ref = refToFind),
        LAMBDA found :
            [n \in 1..Len(found) |->
                IF found[n].kind = "Definition"
                THEN MdLinkReference(found[n], areRangesEqual(from, found[n].ref.range),
                                     TRUE, found[n].ref.range)
                ELSE MdLinkReference(found[n], areRangesEqual(from, found[n].source.hrefRange),
                                     FALSE, found[n].source.hrefRange)])

\* The internal links of the workspace to a file, but for the fragment-only
\* links of the file itself.
findLinksToFile(resource, links, sourceLink) ==
    Let(SelectSeq(links, LAMBDA link :
            /\ link.href.kind = "Internal"
            /\ looksLikeLinkToResource(link.href, resource)
            /\ ~(StartsWith(link.source.hrefText, <<"#">>) /\ link.source.resource = resource)),
        LAMBDA found :
            [n \in 1..Len(found) |->
                MdLinkReference(found[n], IsSourceLink(found[n], sourceLink), FALSE,
                                found[n].source.hrefRange)])

\* MdReferencesProvider.getReferencesToFileInWorkspace(resource)
getReferencesToFileInWorkspace(documents, resource) ==
    findLinksToFile(resource, allLinksInWorkspace(documents), None)

\* The references to a link: by name for a reference link, by URI for an
\* external link; for an internal link whose fragment holds the position,
\* the header of that slug in the target and the links to the target with
\* that fragment, and otherwise the links to the target.  A cancelled
\* request gives no references for an internal link.
getReferencesToLink(documents, docLinks, sourceLink, triggerPosition, isCancellationRequested) ==
    IF sourceLink.href.kind = "Reference"
    THEN getReferencesToLinkReference(docLinks, sourceLink.href.ref, sourceLink.source.hrefRange)
    ELSE IF sourceLink.href.kind = "External"
    THEN Let(SelectSeq(allLinksInWorkspace(documents), LAMBDA link :
                 link.href.kind = "External" /\ link.href.uri = sourceLink.href.uri),
             LAMBDA found :
                 [n \in 1..Len(found) |->
                     MdLinkReference(found[n], IsSourceLink(found[n], sourceLink), FALSE,
                                     found[n].source.hrefRange)])
    ELSE IF isCancellationRequested THEN <<>>
    ELSE Let(statLinkToMarkdownFile(documents, sourceLink.href.path), LAMBDA resolved :
         IF /\ resolved.found
            /\ looksLikeMarkdownUri(resolved.uri)
            /\ sourceLink.href.fragment # <<>>
            /\ sourceLink.source.hrefFragmentRange # None
            /\ positionInRange(sourceLink.source.hrefFragmentRange, triggerPosition)
         THEN Let2(IF CanOpenMarkdownDocument(documents, resolved.uri)
                   THEN lookupByFragment(DocumentAt(documents, resolved.uri).toc,
                                         sourceLink.href.fragment)
                   ELSE None,
                   SelectSeq(allLinksInWorkspace(documents), LAMBDA link :
                       /\ link.href.kind = "Internal"
                       /\ looksLikeLinkToResource(link.href, resolved.uri)
                       /\ link.href.fragment = sourceLink.href.fragment),
                   LAMBDA entry, found :
                       (IF entry = None THEN <<>>
                        ELSE <<MdHeaderReference(resolved.uri, entry, FALSE)>>)
                       \o [n \in 1..Len(found) |->
                              MdLinkReference(found[n], IsSourceLink(found[n], sourceLink), FALSE,
                                              found[n].source.hrefRange)])
         ELSE findLinksToFile(resolved.uri, allLinksInWorkspace(documents), sourceLink))

\* The first link of the document that has the position in the name of its
\* definition or in its href.
LinkAtPosition(docLinks, position) ==
    LET at == {n \in 1..Len(docLinks) :
                  \/ docLinks[n].kind = "Definition"
                        /\ positionInRange(docLinks[n].ref.range, position)
                  \/ positionInRange(docLinks[n].source.hrefRange, position)}
    IN IF at = {} THEN None ELSE docLinks[CHOOSE n \in at : \A k \in at : n <= k]

getReferencesToLinkAtPosition(documents, document, position, isCancellationRequested) ==
    Let(LinkAtPosition(document.links, position), LAMBDA link :
        IF link = None THEN <<>>
        ELSE IF link.kind = "Definition" /\ positionInRange(link.ref.range, position)
        THEN getReferencesToLinkReference(document.links, link.ref.text, link.ref.range)
        ELSE getReferencesToLink(documents, document.links, link, position,
                                 isCancellationRequested))

\* MdReferencesProvider.getReferencesAtPosition(document, position): the
\* references to the header on the line of the position, or else to the
\* link at the position.
getReferencesAtPosition(documents, document, position, isCancellationRequested) ==
    LET headers == {n \in 1..Len(document.toc) : document.toc[n].line = position.line}
    IN IF headers # {}
       THEN getReferencesToHeader(documents, document.uri,
                                  document.toc[CHOOSE n \in headers : TRUE])
       ELSE getReferencesToLinkAtPosition(documents, document, position, isCancellationRequested)

(***************************************************************************)
(* WorkspaceEditBuilder: the text edits in the order they were added, and  *)
(* the file operations; getEdit groups the text edits by document, the     *)
(* documents in the order of their first edit, before the file operations. *)
(***************************************************************************)
NewWorkspaceEditBuilder == [changes |-> <<>>, documentChanges |-> <<>>]

replace(builder, resource, range, newText) ==
    [builder EXCEPT !.changes =
        Append(@, [uri |-> resource, range |-> range, newText |-> newText])]

renameFile(builder, targetUri, resolvedNewFilePath) ==
    [builder EXCEPT !.documentChanges =
        Append(@, [kind |-> "rename", oldUri |-> targetUri, newUri |-> resolvedNewFilePath])]

\* The numbers of a set in ascending order.
Ascending(S) ==
    [k \in 1..Cardinality(S) |-> CHOOSE n \in S : Cardinality({m \in S : m < n}) = k - 1]

getEdit(builder_) ==
    Let(builder_, LAMBDA builder :
    Let(Ascending({n \in 1..Len(builder.changes) :
                      \A m \in 1..(n - 1) : builder.changes[m].uri # builder.changes[n].uri}),
        LAMBDA firsts :
            [documentChanges |->
                [k \in 1..Len(firsts) |->
                    [kind  |-> "edit",
                     uri   |-> builder.changes[firsts[k]].uri,
                     edits |-> SelectSeq(builder.changes, LAMBDA change :
                                   change.uri = builder.changes[firsts[k]].uri)]]
                \o builder.documentChanges]))

(***************************************************************************)
(* Link rename texts                                                       *)
(***************************************************************************)
\* computeRelativePath(fromDoc, toDoc, preferDotSlash); all URIs have the
\* same scheme.
computeRelativePath(fromDoc, toDoc, preferDotSlash) ==
    LET newLink == relative(dirname(fromDoc), toDoc)
    IN IF preferDotSlash /\ ~StartsWith(newLink, <<".", ".", "/">>)
                         /\ ~StartsWith(newLink, <<".", ".", BS>>)
       THEN <<".", "/">> \o newLink
       ELSE newLink

getLinkRenameText(source, newPath, preferDotSlash) ==
    IF StartsWith(source.hrefText, <<"/">>)
    THEN <<"/">> \o relative(resolveInternalDocumentLink(source.resource, <<"/">>).resource, newPath)
    ELSE computeRelativePath(source.resource, newPath, preferDotSlash)

getFilePathRange(link) ==
    IF link.source.hrefFragmentRange # None
    THEN modifyRange(link.source.hrefRange, None,
                     translatePosition(link.source.hrefFragmentRange.start, 0, -1))
    ELSE link.source.hrefRange

newPathWithFragmentIfNeeded(newPath, link) ==
    IF link.href.kind = "Internal" /\ link.href.fragment # <<>>
    THEN newPath \o <<"#">> \o link.href.fragment
    ELSE newPath

\* needsAngleBracketLink(mdPath): the text starts with '<', has white space,
\* or has parentheses that do not balance.
RECURSIVE ParenLevels(_, _)
ParenLevels(text, level) ==
    IF text = <<>> THEN <<level>>
    ELSE <<level>> \o ParenLevels(Tail(text), IF Head(text) = "(" THEN level + 1
                                              ELSE IF Head(text) = ")" THEN level - 1
                                              ELSE level)

needsAngleBracketLink(mdPath) ==
    \/ StartsWith(mdPath, <<"<">>)
    \/ \E i \in 1..Len(mdPath) : mdPath[i] \in SpaceChars
    \/ LET levels == ParenLevels(mdPath, 0)
       IN \/ \E i \in 1..Len(levels) : levels[i] < 0
          \/ levels[Len(levels)] > 0

\* escapeForAngleBracketLink(linkText): a backslash before every '<' and '>'.
RECURSIVE escapeForAngleBracketLink(_)
escapeForAngleBracketLink(linkText) ==
    IF linkText = <<>> THEN <<>>
    ELSE (IF Head(linkText) \in {"<", ">"} THEN <<BS, Head(linkText)>> ELSE <<Head(linkText)>>)
         \o escapeForAngleBracketLink(Tail(linkText))

\* text.replace(/\\/g, '/')
BackslashesToSlashes(text) == [i \in 1..Len(text) |-> IF text[i] = BS THEN "/" ELSE text[i]]

\* getLinkRenameEdit that keeps the angle brackets of a link that has them.
getLinkRenameEditKeepingBrackets(link, newPathText_) ==
    Let(newPathWithFragmentIfNeeded(BackslashesToSlashes(newPathText_), link), LAMBDA newPathText :
        LET linkRange == link.source.hrefRange
        IN IF link.source.isAngleBracketLink
           THEN [range |-> linkRange, newText |-> escapeForAngleBracketLink(newPathText)]
           ELSE IF needsAngleBracketLink(newPathText)
           THEN [range   |-> linkRange,
                 newText |-> <<"<">> \o escapeForAngleBracketLink(newPathText) \o <<">">>]
           ELSE [range |-> linkRange, newText |-> newPathText])

getLinkRenameEdit(link, newPathText_) ==
    Let(newPathWithFragmentIfNeeded(BackslashesToSlashes(newPathText_), link), LAMBDA newPathText :
        LET linkRange == link.source.hrefRange
        IN IF link.source.isAngleBracketLink
           THEN IF ~needsAngleBracketLink(newPathText)
                THEN [range   |-> Rng(translatePosition(linkRange.start, 0, -1),
                                      translatePosition(linkRange.end, 0, 1)),
                      newText |-> newPathText]
                ELSE [range |-> linkRange, newText |-> escapeForAngleBracketLink(newPathText)]
           ELSE IF needsAngleBracketLink(newPathText)
           THEN [range   |-> linkRange,
                 newText |-> <<"<">> \o escapeForAngleBracketLink(newPathText) \o <<">">>]
           ELSE [range |-> linkRange, newText |-> newPathText])

(***************************************************************************)
(* MdRenameProvider.  The operations give their result together with the  *)
(* value they leave in #cachedRefs.                                        *)
(***************************************************************************)
Undefined == [kind |-> "undefined"]
RenameNotSupportedAtLocationError == [kind |-> "throws", error |-> "RenameNotSupportedAtLocationError"]

FirstWhere(xs, Test(_)) ==
    LET at == {n \in 1..Len(xs) : Test(xs[n])}
    IN IF at = {} THEN None ELSE xs[CHOOSE n \in at : \A k \in at : n <= k]

\* getDocUri(document): the URI of the document, a path and, for a document
\* inside another one (a cell of a notebook), the fragment that names it.
getDocUri(document) == [path |-> document.uri, fragment |-> document.fragment]

\* URI.fsPath: the path of the URI as a file system path, without its
\* fragment.
fsPath(uri) == uri.path

\* #getAllReferences(document, position, token): discovered tells that the
\* references provider was asked.
getAllReferences(cachedRefs, documents, document, position, isCancellationRequested) ==
    IF /\ cachedRefs # None
       /\ fsPath(cachedRefs.resource) = fsPath(getDocUri(document))
       /\ cachedRefs.version = document.version
       /\ arePositionsEqual(cachedRefs.position, position)
    THEN [info |-> cachedRefs, cachedRefs |-> cachedRefs, discovered |-> FALSE]
    ELSE Let(getReferencesAtPosition(documents, document, position, isCancellationRequested),
             LAMBDA references :
         IF isCancellationRequested
         THEN [info |-> None, cachedRefs |-> cachedRefs, discovered |-> TRUE]
         ELSE Let(FirstWhere(references, LAMBDA ref : ref.isTriggerLocation), LAMBDA triggerRef :
              IF triggerRef = None
              THEN [info |-> None, cachedRefs |-> cachedRefs, discovered |-> TRUE]
              ELSE Let([resource |-> getDocUri(document), version |-> document.version,
                        position |-> position, references |-> references,
                        triggerRef |-> triggerRef],
                       LAMBDA info : [info |-> info, cachedRefs |-> info,
                                      discovered |-> TRUE])))

\* #findHeaderDeclaration(references)
findHeaderDeclaration(references) ==
    FirstWhere(references, LAMBDA ref : ref.isDefinition /\ ref.kind = "Header")

\* tryDecodeUri(text): the texts of the documents have no percent escapes,
\* which decoding would replace; every other character stays.
tryDecodeUri(text) == SelectSeq(text, LAMBDA c : c # "%")

\* The position is in the fragment of the link.
InFragment(link, position) ==
    /\ link.source.hrefFragmentRange # None
    /\ positionInRange(link.source.hrefFragmentRange, position)

\* prepareRename that looks at the references before it looks at the token.
prepareRenameReferencesFirst(allRefsInfo, document, position, isCancellationRequested) ==
    IF allRefsInfo = None THEN RenameNotSupportedAtLocationError
    ELSE IF allRefsInfo.references = <<>> THEN RenameNotSupportedAtLocationError
    ELSE IF isCancellationRequested THEN Undefined
    ELSE [kind |-> "value", range |-> allRefsInfo.triggerRef.location.range,
          placeholder |-> getText(document.text, allRefsInfo.triggerRef.location.range)]

\* prepareRename(document, position, token), once the references are there.
prepareRenameOf(allRefsInfo, document, position, isCancellationRequested) ==
    IF isCancellationRequested THEN Undefined
    ELSE IF allRefsInfo = None THEN RenameNotSupportedAtLocationError
    ELSE IF allRefsInfo.references = <<>> THEN RenameNotSupportedAtLocationError
    ELSE LET triggerRef == allRefsInfo.triggerRef
         IN IF triggerRef.kind = "Header"
            THEN [kind |-> "value", range |-> triggerRef.headerTextLocation.range,
                  placeholder |-> triggerRef.headerText]
            ELSE IF /\ triggerRef.link.kind = "Definition"
                    /\ positionInRange(triggerRef.link.ref.range, position)
            THEN [kind |-> "value", range |-> triggerRef.link.ref.range,
                  placeholder |-> triggerRef.link.ref.text]
            ELSE IF triggerRef.link.href.kind = "External"
            THEN [kind |-> "value", range |-> triggerRef.link.source.hrefRange,
                  placeholder |-> getText(document.text, triggerRef.link.source.hrefRange)]
            ELSE IF InFragment(triggerRef.link, position)
            THEN LET declaration == findHeaderDeclaration(allRefsInfo.references)
                 IN [kind |-> "value", range |-> triggerRef.link.source.hrefFragmentRange,
                     placeholder |->
                        IF declaration # None THEN declaration.headerText
                        ELSE getText(document.text, triggerRef.link.source.hrefFragmentRange)]
            ELSE [kind |-> "value", range |-> getFilePathRange(triggerRef.link),
                  placeholder |-> tryDecodeUri(getText(document.text,
                                                       getFilePathRange(triggerRef.link)))]

prepareRename(cachedRefs, documents, document, position, isCancellationRequested) ==
    Let(getAllReferences(cachedRefs, documents, document, position, isCancellationRequested),
        LAMBDA all :
            [result     |-> prepareRenameOf(all.info, document, position, isCancellationRequested),
             cachedRefs |-> all.cachedRefs,
             lookup     |-> [discovered |-> all.discovered, info |-> all.info]])

\* #renameReferenceLinks(allRefsInfo, newName)
RECURSIVE renameReferenceLinksFrom(_, _, _)
renameReferenceLinksFrom(references, newName, builder_) ==
    Let(builder_, LAMBDA builder :
        IF references = <<>> THEN builder
        ELSE LET ref == Head(references)
             IN renameReferenceLinksFrom(Tail(references), newName,
                   IF ref.kind # "Link" THEN builder
                   ELSE IF ref.link.kind = "Definition"
                   THEN replace(builder, ref.link.source.resource, ref.link.ref.range, newName)
                   ELSE replace(builder, ref.link.source.resource,
                                IF ref.link.source.hrefFragmentRange # None
                                THEN ref.link.source.hrefFragmentRange
                                ELSE ref.location.range,
                                newName)))

renameReferenceLinks(allRefsInfo, newName) ==
    getEdit(renameReferenceLinksFrom(allRefsInfo.references, newName, NewWorkspaceEditBuilder))

\* #renameExternalLink(allRefsInfo, newName)
RECURSIVE renameExternalLinkFrom(_, _, _)
renameExternalLinkFrom(references, newName, builder_) ==
    Let(builder_, LAMBDA builder :
        IF references = <<>> THEN builder
        ELSE LET ref == Head(references)
             IN renameExternalLinkFrom(Tail(references), newName,
                   IF ref.kind # "Link" THEN builder
                   ELSE replace(builder, ref.link.source.resource, ref.location.range, newName)))

renameExternalLink(allRefsInfo, newName) ==
    getEdit(renameExternalLinkFrom(allRefsInfo.references, newName, NewWorkspaceEditBuilder))

\* #getLinkRenameEdit(ref, rawNewFilePath, newName)
MdRenameProvider_getLinkRenameEdit(ref, rawNewFilePath, newName) ==
    getLinkRenameEdit(ref.link,
        getLinkRenameText(ref.link.source, rawNewFilePath.resource,
                          StartsWith(newName, <<".", "/">>) \/ StartsWith(newName, <<".", BS>>)))

RECURSIVE renameFilePathFrom(_, _, _, _)
renameFilePathFrom(references, rawNewFilePath, newName, builder_) ==
    Let(builder_, LAMBDA builder :
        IF references = <<>> THEN builder
        ELSE LET ref == Head(references)
             IN renameFilePathFrom(Tail(references), rawNewFilePath, newName,
                   IF ref.kind # "Link" THEN builder
                   ELSE Let(MdRenameProvider_getLinkRenameEdit(ref, rawNewFilePath, newName),
                            LAMBDA edit : replace(builder, ref.link.source.resource,
                                                  edit.range, edit.newText))))

\* #renameFilePath that renames the target whether it exists or not.
renameFilePathOfAnyTarget(documents, triggerDocument, triggerHref, allRefsInfo, newName, isCancellationRequested) ==
    IF isCancellationRequested THEN getEdit(NewWorkspaceEditBuilder)
    ELSE Let2(statLinkToMarkdownFile(documents, triggerHref.path).uri,
              resolveInternalDocumentLink(triggerDocument, newName),
              LAMBDA targetUri, rawNewFilePath :
         LET resolvedNewFilePath ==
                IF extname(rawNewFilePath.resource) = <<>> /\ extname(targetUri) # <<>>
                THEN appendExtension(rawNewFilePath.resource, MarkdownExtension)
                ELSE rawNewFilePath.resource
         IN getEdit(renameFilePathFrom(allRefsInfo.references, rawNewFilePath, newName,
                       renameFile(NewWorkspaceEditBuilder, targetUri, resolvedNewFilePath))))

\* #renameFilePath(triggerDocument, triggerHref, allRefsInfo, newName, token)
renameFilePath(documents, triggerDocument, triggerHref, allRefsInfo, newName, isCancellationRequested) ==
    IF isCancellationRequested THEN getEdit(NewWorkspaceEditBuilder)
    ELSE Let2(statLinkToMarkdownFile(documents, triggerHref.path).uri,
              resolveInternalDocumentLink(triggerDocument, newName),
              LAMBDA targetUri, rawNewFilePath :
         LET resolvedNewFilePath ==
                IF extname(rawNewFilePath.resource) = <<>> /\ extname(targetUri) # <<>>
                THEN appendExtension(rawNewFilePath.resource, MarkdownExtension)
                ELSE rawNewFilePath.resource
         IN getEdit(renameFilePathFrom(allRefsInfo.references, rawNewFilePath, newName,
                       IF stat(documents, targetUri).exists
                       THEN renameFile(NewWorkspaceEditBuilder, targetUri, resolvedNewFilePath)
                       ELSE NewWorkspaceEditBuilder)))

\* document.applyEdits([TextEdit.replace(range, newText)])
applyEdits(text, range, newText) ==
    Slice(text, 0, offsetAt(text, range.start)) \o newText
    \o Slice(text, offsetAt(text, range.end), Len(text))

\* No header but the renamed one is taken to change.
noChangedHeaders(oldToc, newToc, existingHeader) == <<>>

\* The entries of the edited table of contents whose slug is not the one
\* of the entry at the same index of the old one, but for the renamed header.
changedHeaders(oldToc, newToc, existingHeader) ==
    LET changed == {index \in 1..Min(Len(oldToc), Len(newToc)) :
                       /\ oldToc[index].headerLocation.range.start.line
                             # existingHeader.location.range.start.line
                       /\ oldToc[index].slug # newToc[index].slug}
    IN [k \in 1..Cardinality(changed) |-> newToc[Ascending(changed)[k]]]

\* The slug of the renamed header: the one of the entry of the edited table
\* of contents at the index of the header, or else the slug of the new text.
newSlugOf(oldToc, newToc, existingHeader, newSlug) ==
    LET same == {index \in 1..Min(Len(oldToc), Len(newToc)) :
                    oldToc[index].headerLocation.range.start.line
                       = existingHeader.location.range.start.line}
    IN IF same = {} THEN newSlug
       ELSE newToc[CHOOSE index \in same : \A k \in same : k <= index].slug

\* The edits for the links to one changed header.
RECURSIVE changedHeaderEdits(_, _, _)
changedHeaderEdits(references, changedHeader, builder_) ==
    Let(builder_, LAMBDA builder :
        IF references = <<>> THEN builder
        ELSE LET ref == Head(references)
             IN changedHeaderEdits(Tail(references), changedHeader,
                   IF ref.kind # "Link" THEN builder
                   ELSE replace(builder, ref.link.source.resource,
                                IF ref.link.source.hrefFragmentRange # None
                                THEN ref.link.source.hrefFragmentRange
                                ELSE ref.location.range,
                                changedHeader.slug)))

\* The loop over the changed headers: the references to each one are asked
\* for at the start of its line in the edited document.  The token is
\* cancelled during the lookup of number cancelIn, and the loop then ends
\* without a result.
RECURSIVE cascade(_, _, _, _, _, _)
cascade(cachedRefs_, documents, doc, headers, builder_, cancelIn) ==
    Let2(cachedRefs_, builder_, LAMBDA cachedRefs, builder :
        IF headers = <<>>
        THEN [builder |-> builder, cachedRefs |-> cachedRefs, cancelled |-> FALSE]
        ELSE Let(getAllReferences(cachedRefs, documents, doc,
                                  Head(headers).headerLocation.range.start, cancelIn = 1),
                 LAMBDA refs :
                     IF cancelIn = 1
                     THEN [builder |-> builder, cachedRefs |-> refs.cachedRefs,
                           cancelled |-> TRUE]
                     ELSE cascade(refs.cachedRefs, documents, doc, Tail(headers),
                                  changedHeaderEdits(IF refs.info = None THEN <<>>
                                                     ELSE refs.info.references,
                                                     Head(headers), builder),
                                  cancelIn - 1)))

\* The last loop of #renameFragment with the new text for every link.
RECURSIVE renameFragmentFromWithTextOnly(_, _, _, _)
renameFragmentFromWithTextOnly(references, newHeaderText, newSlug, builder_) ==
    Let(builder_, LAMBDA builder :
        IF references = <<>> THEN builder
        ELSE LET ref == Head(references)
             IN renameFragmentFromWithTextOnly(Tail(references), newHeaderText, newSlug,
                   IF ref.kind = "Header"
                   THEN replace(builder, ref.location.uri, ref.headerTextLocation.range,
                                newHeaderText)
                   ELSE replace(builder, ref.link.source.resource,
                                IF ref.link.source.hrefFragmentRange # None
                                THEN ref.link.source.hrefFragmentRange
                                ELSE ref.location.range,
                                newHeaderText)))

\* The last loop of #renameFragment.
RECURSIVE renameFragmentFrom(_, _, _, _)
renameFragmentFrom(references, newHeaderText, newSlug, builder_) ==
    Let(builder_, LAMBDA builder :
        IF references = <<>> THEN builder
        ELSE LET ref == Head(references)
             IN renameFragmentFrom(Tail(references), newHeaderText, newSlug,
                   IF ref.kind = "Header"
                   THEN replace(builder, ref.location.uri, ref.headerTextLocation.range,
                                newHeaderText)
                   ELSE replace(builder, ref.link.source.resource,
                                IF ref.link.source.hrefFragmentRange # None
                                THEN ref.link.source.hrefFragmentRange
                                ELSE ref.location.range,
                                IF \/ ref.link.source.hrefFragmentRange = None
                                   \/ ref.link.href.kind = "External"
                                THEN newHeaderText
                                ELSE newSlug)))

\* #renameFragment(allRefsInfo, newHeaderText, token)
renameFragment(cachedRefs, documents, allRefsInfo, newHeaderText, cancelAt) ==
    Let(FirstWhere(allRefsInfo.references, LAMBDA x : x.kind = "Header"), LAMBDA existingHeader :
        IF existingHeader = None
        THEN [result |-> [kind |-> "edit",
                          edit |-> getEdit(renameFragmentFrom(allRefsInfo.references, newHeaderText,
                                              slugify(newHeaderText), NewWorkspaceEditBuilder))],
              cachedRefs |-> cachedRefs]
        ELSE IF cancelAt = 2 THEN [result |-> Undefined, cachedRefs |-> cachedRefs]
        ELSE IF ~CanOpenMarkdownDocument(documents, existingHeader.location.uri)
        THEN [result |-> [kind |-> "edit",
                          edit |-> getEdit(renameFragmentFrom(allRefsInfo.references, newHeaderText,
                                              slugify(newHeaderText), NewWorkspaceEditBuilder))],
              cachedRefs |-> cachedRefs]
        ELSE IF cancelAt = 3 THEN [result |-> Undefined, cachedRefs |-> cachedRefs]
        ELSE Let(DocumentAt(documents, existingHeader.location.uri), LAMBDA doc :
             Let(TocEntries(applyEdits(doc.text, existingHeader.location.range,
                                       <<"#", " ">> \o newHeaderText)),
                 LAMBDA newToc :
             Let(cascade(cachedRefs, documents, doc,
                         changedHeaders(doc.toc, newToc, existingHeader),
                         NewWorkspaceEditBuilder, cancelAt - 3),
                 LAMBDA cascaded :
                 IF cascaded.cancelled
                 THEN [result |-> Undefined, cachedRefs |-> cascaded.cachedRefs]
                 ELSE
                 [result |-> [kind |-> "edit",
                              edit |-> getEdit(renameFragmentFrom(allRefsInfo.references,
                                          newHeaderText,
                                          newSlugOf(doc.toc, newToc, existingHeader,
                                                    slugify(newHeaderText)),
                                          cascaded.builder))],
                  cachedRefs |-> cascaded.cachedRefs]))))

\* The dispatch of provideRenameEdits that takes the name of a definition
\* for a part of its link.
provideRenameEditsOfLinksOnly(all, documents, position, newName, cancelAt) ==
    IF cancelAt = 1 \/ all.info = None THEN [result |-> Undefined, cachedRefs |-> all.cachedRefs]
    ELSE IF all.info.references = <<>> THEN [result |-> Undefined, cachedRefs |-> all.cachedRefs]
    ELSE LET allRefsInfo == all.info
             triggerRef  == all.info.triggerRef
         IN IF triggerRef.kind = "Link" /\ triggerRef.link.href.kind = "Reference"
            THEN [result |-> [kind |-> "edit", edit |-> renameReferenceLinks(allRefsInfo, newName)],
                  cachedRefs |-> all.cachedRefs]
            ELSE IF triggerRef.kind = "Link" /\ triggerRef.link.href.kind = "External"
            THEN [result |-> [kind |-> "edit", edit |-> renameExternalLink(allRefsInfo, newName)],
                  cachedRefs |-> all.cachedRefs]
            ELSE IF \/ triggerRef.kind = "Header"
                    \/ /\ triggerRef.kind = "Link"
                       /\ InFragment(triggerRef.link, position)
                       /\ \/ triggerRef.link.kind = "Definition"
                          \/ /\ triggerRef.link.kind = "Link"
                             /\ triggerRef.link.href.kind = "Internal"
            THEN renameFragment(all.cachedRefs, documents, allRefsInfo, newName, cancelAt)
            ELSE IF /\ triggerRef.kind = "Link"
                    /\ ~InFragment(triggerRef.link, position)
                    /\ triggerRef.link.kind \in {"Link", "Definition"}
                    /\ triggerRef.link.href.kind = "Internal"
            THEN [result |-> [kind |-> "edit",
                              edit |-> renameFilePath(documents, triggerRef.link.source.resource,
                                          triggerRef.link.href, allRefsInfo, newName,
                                          cancelAt = 2)],
                  cachedRefs |-> all.cachedRefs]
            ELSE [result |-> Undefined, cachedRefs |-> all.cachedRefs]

\* provideRenameEdits(document, position, newName, token).  cancelAt is 0
\* when the token is never requested, 1 when it is requested while the
\* references are looked up, 2 when it is requested at the first await
\* after that (the opening of the document of the header, or the stat of
\* the target of the link), 3 at the second (the tables of contents, or the
\* stat of the file to rename), and 3 + n during the lookup of the
\* references to the n-th changed header.
provideRenameEditsOf(all, documents, position, newName, cancelAt) ==
    IF cancelAt = 1 \/ all.info = None THEN [result |-> Undefined, cachedRefs |-> all.cachedRefs]
    ELSE IF all.info.references = <<>> THEN [result |-> Undefined, cachedRefs |-> all.cachedRefs]
    ELSE LET allRefsInfo == all.info
             triggerRef  == all.info.triggerRef
         IN IF /\ triggerRef.kind = "Link"
               /\ \/ /\ triggerRef.link.kind = "Definition"
                     /\ positionInRange(triggerRef.link.ref.range, position)
                  \/ triggerRef.link.href.kind = "Reference"
            THEN [result |-> [kind |-> "edit", edit |-> renameReferenceLinks(allRefsInfo, newName)],
                  cachedRefs |-> all.cachedRefs]
            ELSE IF triggerRef.kind = "Link" /\ triggerRef.link.href.kind = "External"
            THEN [result |-> [kind |-> "edit", edit |-> renameExternalLink(allRefsInfo, newName)],
                  cachedRefs |-> all.cachedRefs]
            ELSE IF \/ triggerRef.kind = "Header"
                    \/ /\ triggerRef.kind = "Link"
                       /\ InFragment(triggerRef.link, position)
                       /\ \/ triggerRef.link.kind = "Definition"
                          \/ /\ triggerRef.link.kind = "Link"
                             /\ triggerRef.link.href.kind = "Internal"
            THEN renameFragment(all.cachedRefs, documents, allRefsInfo, newName, cancelAt)
            ELSE IF /\ triggerRef.kind = "Link"
                    /\ ~InFragment(triggerRef.link, position)
                    /\ triggerRef.link.kind \in {"Link", "Definition"}
                    /\ triggerRef.link.href.kind = "Internal"
            THEN [result |-> [kind |-> "edit",
                              edit |-> renameFilePath(documents, triggerRef.link.source.resource,
                                          triggerRef.link.href, allRefsInfo, newName,
                                          cancelAt = 2)],
                  cachedRefs |-> all.cachedRefs]
            ELSE [result |-> Undefined, cachedRefs |-> all.cachedRefs]

provideRenameEdits(cachedRefs, documents, document, position, newName, cancelAt) ==
    Let(getAllReferences(cachedRefs, documents, document, position, cancelAt = 1),
        LAMBDA all :
            Let(provideRenameEditsOf(all, documents, position, newName, cancelAt), LAMBDA r :
                [result     |-> r.result,
                 cachedRefs |-> r.cachedRefs,
                 lookup     |-> [discovered |-> all.discovered, info |-> all.info]]))

(***************************************************************************)
(* MdFileRenameProvider: the edits of the links of the workspace for a     *)
(* batch of renames of files and directories.  The request runs on the     *)
(* workspace after the renames.  A request carries its builder and the     *)
(* number of awaits it has made; the token is cancelled during the await   *)
(* of number cancelAt (never when cancelAt is 0).                          *)
(***************************************************************************)
FileRename(oldUri, newUri) == [oldUri |-> oldUri, newUri |-> newUri]

Cancelled(awaits, cancelAt) == cancelAt # 0 /\ awaits >= cancelAt

\* The request after one more await.
Awaited(st) == [st EXCEPT !.awaits = @ + 1]

\* encodeURI on the characters of the alphabet.
encodeURIChar(c) ==
    CASE c = " " -> <<"%", "2", "0">>
      [] c = DQ  -> <<"%", "2", "2">>
      [] c = "<" -> <<"%", "3", "C">>
      [] c = ">" -> <<"%", "3", "E">>
      [] c = "[" -> <<"%", "5", "B">>
      [] c = BS  -> <<"%", "5", "C">>
      [] c = "]" -> <<"%", "5", "D">>
      [] c = "^" -> <<"%", "5", "E">>
      [] c = BT  -> <<"%", "6", "0">>
      [] c = NL  -> <<"%", "0", "A">>
      [] OTHER   -> <<c>>

RECURSIVE encodeURI(_)
encodeURI(text) ==
    IF text = <<>> THEN <<>> ELSE encodeURIChar(Head(text)) \o encodeURI(Tail(text))

\* removeNewUriExtIfNeeded(config, originalHref, newUri) with the extension
\* style 'auto': a Markdown extension is dropped from the new URI when the
\* path of the original href has no extension.
removeNewUriExtIfNeeded(originalHref, newUri) ==
    IF looksLikeMarkdownUri(newUri) /\ extname(originalHref.path) = <<>>
    THEN LET name == newUri[Len(newUri)]
         IN SubSeq(newUri, 1, Len(newUri) - 1)
            \o <<SubSeq(name, 1, Len(name) - Len(extname(newUri)))>>
    ELSE newUri

\* #addLinkRenameEdit(doc, link, newUri, builder)
addLinkRenameEdit(doc, link, newUri, st) ==
    IF link.href.kind # "Internal" THEN [didParticipate |-> FALSE, st |-> st]
    ELSE Let(getLinkRenameEdit(link,
                getLinkRenameText(link.source, removeNewUriExtIfNeeded(link.href, newUri),
                                  StartsWith(link.source.hrefText, <<".">>))),
             LAMBDA textEdit :
                [didParticipate |-> TRUE,
                 st |-> [st EXCEPT !.builder = replace(@, doc, textEdit.range, textEdit.newText)]])

\* The loop over the references of #addEditsForReferencesToFile.
RECURSIVE addEditsForReferences(_, _, _, _)
addEditsForReferences(refs, edit, didParticipate, st_) ==
    Let(st_, LAMBDA st :
        IF refs = <<>> THEN [didParticipate |-> didParticipate, st |-> st]
        ELSE IF Head(refs).kind # "Link"
        THEN addEditsForReferences(Tail(refs), edit, didParticipate, st)
        ELSE Let(addLinkRenameEdit(Head(refs).location.uri, Head(refs).link, edit.newUri, st),
                 LAMBDA added :
                    addEditsForReferences(Tail(refs), edit,
                        didParticipate \/ added.didParticipate, added.st)))

\* #addEditsForReferencesToFile(edit, builder, token)
addEditsForReferencesToFile(documents, edit, st_, cancelAt) ==
    IF isExcludedPath(edit.newUri) THEN [didParticipate |-> FALSE, st |-> st_]
    ELSE Let(Awaited(st_), LAMBDA st :
            IF Cancelled(st.awaits, cancelAt) THEN [didParticipate |-> FALSE, st |-> st]
            ELSE addEditsForReferences(getReferencesToFileInWorkspace(documents, edit.oldUri),
                                       edit, FALSE, st))

\* No rename of the batch is taken to move the resource.
RenamedByNone(allEdits, resource) == 0

\* The first rename of the batch that moves the resource, if any (the loop
\* over allEdits of #addEditsForLinksInSelf, which breaks at the first).
RenamedBy(allEdits, resource) ==
    LET effected == {n \in 1..Len(allEdits) :
                        \/ isSameResource(allEdits[n].oldUri, resource)
                        \/ isParentDir(allEdits[n].oldUri, resource)}
    IN IF effected = {} THEN 0 ELSE CHOOSE n \in effected : \A k \in effected : n <= k

\* The links that start with '/' are edited as the relative ones are.
addEditsForLinksInSelfWithRootLinks(docUri, link, edit, allEdits, st) ==
    IF link.href.kind # "Internal" THEN [didParticipate |-> FALSE, st |-> st]
    ELSE IF StartsWith(link.source.hrefText, <<"#">>) THEN [didParticipate |-> FALSE, st |-> st]
    ELSE Let(resolveInternalDocumentLink(edit.oldUri, link.source.hrefText), LAMBDA oldLink :
         Let(RenamedBy(allEdits, oldLink.resource), LAMBDA n :
            addLinkRenameEdit(docUri, link,
                IF n = 0 THEN oldLink.resource
                ELSE joinPath(allEdits[n].newUri,
                              relative(allEdits[n].oldUri, oldLink.resource)),
                st)))

\* #addEditsForLinksInSelf(doc, link, edit, allEdits, builder)
addEditsForLinksInSelf(docUri, link, edit, allEdits, st) ==
    IF link.href.kind # "Internal" THEN [didParticipate |-> FALSE, st |-> st]
    ELSE IF StartsWith(link.source.hrefText, <<"#">>) THEN [didParticipate |-> FALSE, st |-> st]
    ELSE IF StartsWith(link.source.hrefText, <<"/">>) THEN [didParticipate |-> FALSE, st |-> st]
    ELSE Let(resolveInternalDocumentLink(edit.oldUri, link.source.hrefText), LAMBDA oldLink :
         Let(RenamedBy(allEdits, oldLink.resource), LAMBDA n :
            addLinkRenameEdit(docUri, link,
                IF n = 0 THEN oldLink.resource
                ELSE joinPath(allEdits[n].newUri,
                              relative(allEdits[n].oldUri, oldLink.resource)),
                st)))

\* The loop over the links of #tryAddEditsInSelf.
RECURSIVE addEditsInSelf(_, _, _, _, _, _)
addEditsInSelf(docUri, docLinks, edit, allEdits, didParticipate, st_) ==
    Let(st_, LAMBDA st :
        IF docLinks = <<>> THEN [didParticipate |-> didParticipate, st |-> st]
        ELSE Let(addEditsForLinksInSelf(docUri, Head(docLinks), edit, allEdits, st),
                 LAMBDA added :
                    addEditsInSelf(docUri, Tail(docLinks), edit, allEdits,
                        didParticipate \/ added.didParticipate, added.st)))

\* #tryAddEditsInSelf(edit, allEdits, builder): the awaits are the opening
\* of the document and the read of the link cache.
tryAddEditsInSelf(documents, edit, allEdits, st) ==
    IF ~looksLikeMarkdownUri(edit.newUri) THEN [didParticipate |-> FALSE, st |-> st]
    ELSE IF isExcludedPath(edit.newUri) THEN [didParticipate |-> FALSE, st |-> st]
    ELSE IF ~CanOpenMarkdownDocument(documents, edit.newUri)
    THEN [didParticipate |-> FALSE, st |-> Awaited(st)]
    ELSE addEditsInSelf(edit.newUri, DocumentAt(documents, edit.newUri).links, edit, allEdits,
                        FALSE, Awaited(Awaited(st)))

\* #addSingleFileRenameEdits that answers with the participation of the
\* references only.
addSingleFileRenameEditsOfReferences(documents, edit, allEdits, st, cancelAt) ==
    Let(addEditsForReferencesToFile(documents, edit, st, cancelAt), LAMBDA toFile :
        IF Cancelled(toFile.st.awaits, cancelAt)
        THEN [didParticipate |-> FALSE, st |-> toFile.st]
        ELSE Let(tryAddEditsInSelf(documents, edit, allEdits, toFile.st), LAMBDA inSelf :
                [didParticipate |-> toFile.didParticipate, st |-> inSelf.st]))

\* #addSingleFileRenameEdits(edit, allEdits, builder, token)
addSingleFileRenameEdits(documents, edit, allEdits, st, cancelAt) ==
    Let(addEditsForReferencesToFile(documents, edit, st, cancelAt), LAMBDA toFile :
        IF Cancelled(toFile.st.awaits, cancelAt)
        THEN [didParticipate |-> FALSE, st |-> toFile.st]
        ELSE Let(tryAddEditsInSelf(documents, edit, allEdits, toFile.st), LAMBDA inSelf :
                [didParticipate |-> toFile.didParticipate \/ inSelf.didParticipate,
                 st |-> inSelf.st]))

\* The body of the loop with an edit for every link out of the moved
\* directory, whether its text changes or not.
addDirectoryRenameEditsForLinkAlways(docUri, link, edit, st) ==
    IF link.href.kind # "Internal" \/ StartsWith(link.source.hrefText, <<"#">>)
    THEN [didParticipate |-> FALSE, st |-> st]
    ELSE IF isParentDir(edit.oldUri, link.href.path)
    THEN \* #addLinkRenameEdit adds an edit for every internal link
         addLinkRenameEdit(docUri, link,
             joinPath(edit.newUri, relative(edit.oldUri, link.href.path)), st)
    ELSE IF StartsWith(link.source.hrefText, <<".", ".">>) /\ isParentDir(edit.newUri, docUri)
    THEN Let(joinPath(edit.oldUri, relative(edit.newUri, docUri)), LAMBDA oldDocUri :
         Let(resolveInternalDocumentLink(oldDocUri, link.source.hrefText), LAMBDA oldLink :
         Let(encodeURI(IF isParentDir(edit.oldUri, oldLink.resource)
                       THEN <<".", "/">> \o relative(dirname(oldDocUri), oldLink.resource)
                       ELSE relative(dirname(docUri), oldLink.resource)),
             LAMBDA replacementPath :
                IF TRUE
                THEN Let(getLinkRenameEdit(link, replacementPath), LAMBDA textEdit :
                        [didParticipate |-> TRUE,
                         st |-> [st EXCEPT !.builder =
                                    replace(@, docUri, textEdit.range, textEdit.newText)]])
                ELSE [didParticipate |-> FALSE, st |-> st])))
    ELSE [didParticipate |-> FALSE, st |-> st]

\* The body of the loop over the links of #addDirectoryRenameEdits.
addDirectoryRenameEditsForLink(docUri, link, edit, st) ==
    IF link.href.kind # "Internal" \/ StartsWith(link.source.hrefText, <<"#">>)
    THEN [didParticipate |-> FALSE, st |-> st]
    ELSE IF isParentDir(edit.oldUri, link.href.path)
    THEN \* #addLinkRenameEdit adds an edit for every internal link
         addLinkRenameEdit(docUri, link,
             joinPath(edit.newUri, relative(edit.oldUri, link.href.path)), st)
    ELSE IF StartsWith(link.source.hrefText, <<".", ".">>) /\ isParentDir(edit.newUri, docUri)
    THEN Let(joinPath(edit.oldUri, relative(edit.newUri, docUri)), LAMBDA oldDocUri :
         Let(resolveInternalDocumentLink(oldDocUri, link.source.hrefText), LAMBDA oldLink :
         Let(encodeURI(IF isParentDir(edit.oldUri, oldLink.resource)
                       THEN <<".", "/">> \o relative(dirname(oldDocUri), oldLink.resource)
                       ELSE relative(dirname(docUri), oldLink.resource)),
             LAMBDA replacementPath :
                IF replacementPath # link.source.hrefPathText
                THEN Let(getLinkRenameEdit(link, replacementPath), LAMBDA textEdit :
                        [didParticipate |-> TRUE,
                         st |-> [st EXCEPT !.builder =
                                    replace(@, docUri, textEdit.range, textEdit.newText)]])
                ELSE [didParticipate |-> FALSE, st |-> st])))
    ELSE [didParticipate |-> FALSE, st |-> st]

\* The loops of #addDirectoryRenameEdits over the links of the workspace.
RECURSIVE addDirectoryRenameEditsForLinks(_, _, _, _)
addDirectoryRenameEditsForLinks(allLinks, edit, didParticipate, st_) ==
    Let(st_, LAMBDA st :
        IF allLinks = <<>> THEN [didParticipate |-> didParticipate, st |-> st]
        ELSE Let(addDirectoryRenameEditsForLink(Head(allLinks).source.resource,
                                                Head(allLinks), edit, st),
                 LAMBDA added :
                    addDirectoryRenameEditsForLinks(Tail(allLinks), edit,
                        didParticipate \/ added.didParticipate, added.st)))

\* #addDirectoryRenameEdits(edit, builder, token)
addDirectoryRenameEdits(documents, edit, st_, cancelAt) ==
    Let(Awaited(st_), LAMBDA st :
        IF Cancelled(st.awaits, cancelAt) THEN [didParticipate |-> FALSE, st |-> st]
        ELSE addDirectoryRenameEditsForLinks(allLinksInWorkspace(documents), edit, FALSE, st))

\* The loop that answers a cancellation with what the builder holds.
RECURSIVE renameFilesUntilCancelled(_, _, _, _, _, _)
renameFilesUntilCancelled(documents, edits, n, participatingRenames, st_, cancelAt) ==
    IF n > Len(edits) \/ Cancelled(st_.awaits, cancelAt)
    THEN [kind |-> "value", participatingRenames |-> participatingRenames,
          edit |-> getEdit(st_.builder), awaits |-> st_.awaits]
    ELSE Let(Awaited(st_), LAMBDA st :
            IF Cancelled(st.awaits, cancelAt) THEN [kind |-> "undefined", awaits |-> st.awaits]
            ELSE Let(IF stat(documents, edits[n].newUri).isDirectory
                     THEN addDirectoryRenameEdits(documents, edits[n], st, cancelAt)
                     ELSE addSingleFileRenameEdits(documents, edits[n], edits, st, cancelAt),
                     LAMBDA added :
                        renameFilesUntilCancelled(documents, edits, n + 1,
                            IF added.didParticipate
                            THEN Append(participatingRenames, edits[n])
                            ELSE participatingRenames,
                            added.st, cancelAt)))

\* The loop over the edits of getRenameFilesInWorkspaceEdit: the result is
\* undefined, or the participating renames and the builder.
RECURSIVE renameFiles(_, _, _, _, _, _)
renameFiles(documents, edits, n, participatingRenames, st_, cancelAt) ==
    IF n > Len(edits)
    THEN [kind |-> "value", participatingRenames |-> participatingRenames,
          edit |-> getEdit(st_.builder), awaits |-> st_.awaits]
    ELSE Let(Awaited(st_), LAMBDA st :
            IF Cancelled(st.awaits, cancelAt) THEN [kind |-> "undefined", awaits |-> st.awaits]
            ELSE Let(IF stat(documents, edits[n].newUri).isDirectory
                     THEN addDirectoryRenameEdits(documents, edits[n], st, cancelAt)
                     ELSE addSingleFileRenameEdits(documents, edits[n], edits, st, cancelAt),
                     LAMBDA added :
                        IF Cancelled(added.st.awaits, cancelAt)
                        THEN [kind |-> "undefined", awaits |-> added.st.awaits]
                        ELSE renameFiles(documents, edits, n + 1,
                                IF added.didParticipate
                                THEN Append(participatingRenames, edits[n])
                                ELSE participatingRenames,
                                added.st, cancelAt)))

\* getRenameFilesInWorkspaceEdit(edits, token)
getRenameFilesInWorkspaceEdit(documents, edits, cancelAt) ==
    renameFiles(documents, edits, 1, <<>>,
                [builder |-> NewWorkspaceEditBuilder, awaits |-> 0], cancelAt)
(***************************************************************************)
(* MdLinkProvider.resolveLinkTarget: where the text of a link leads.       *)
(***************************************************************************)
DigitChars == {"0", "1", "2", "3", "4", "5", "6", "7", "8", "9"}

DigitValue(c) ==
    CASE c = "0" -> 0 [] c = "1" -> 1 [] c = "2" -> 2 [] c = "3" -> 3 [] c = "4" -> 4
      [] c = "5" -> 5 [] c = "6" -> 6 [] c = "7" -> 7 [] c = "8" -> 8 [] c = "9" -> 9

IsNumber(text) == text # <<>> /\ \A i \in 1..Len(text) : text[i] \in DigitChars

RECURSIVE NumberOf(_)
NumberOf(text) ==
    IF text = <<>> THEN 0
    ELSE 10 * NumberOf(SubSeq(text, 1, Len(text) - 1)) + DigitValue(text[Len(text)])

\* parseLocationInfoFromFragment(fragment): a fragment L<line>,<column>,
\* with the L and the column optional, is the position line - 1 and
\* column - 1, or 0 without a column; any other fragment is no position.
parseLocationInfoFromFragment(fragment) ==
    LET body  == IF fragment # <<>> /\ fragment[1] \in {"L", "l"} THEN Tail(fragment)
                 ELSE fragment
        comma == IndexOfChar(body, ",")
        line  == IF comma < 0 THEN body ELSE Slice(body, 0, comma)
        col   == IF comma < 0 THEN <<>> ELSE Slice(body, comma + 1, Len(body))
    IN IF IsNumber(line) /\ (comma < 0 \/ IsNumber(col))
       THEN Pos(NumberOf(line) - 1, IF comma < 0 THEN 0 ELSE NumberOf(col) - 1)
       ELSE None

\* tryAppendMarkdownFileExtension(config, target): the target with the
\* Markdown extension when it has no extension.
tryAppendMarkdownFileExtension(target) ==
    IF extname(target) = <<>>
    THEN [found |-> TRUE, uri |-> appendExtension(target, MarkdownExtension)]
    ELSE [found |-> FALSE, uri |-> target]

FolderTarget(uri) == [kind |-> "folder", uri |-> uri, position |-> None, fragment |-> <<>>]
FileTarget(uri)   == [kind |-> "file", uri |-> uri, position |-> None, fragment |-> <<>>]

\* The header of the fragment is looked up before the fragment is read as
\* a line and a column.
resolveFragmentTargetHeaderFirst(documents, target, linkFragment, cancelAt) ==
    IF linkFragment = <<>> THEN FileTarget(target)
    ELSE IF cancelAt # 2 /\ CanOpenMarkdownDocument(documents, target)
            /\ lookupByFragment(DocumentAt(documents, target).toc, linkFragment) # None
    THEN [kind |-> "file", uri |-> target,
          position |-> lookupByFragment(DocumentAt(documents, target).toc,
                                        linkFragment).headerLocation.range.start,
          fragment |-> linkFragment]
    ELSE Let(parseLocationInfoFromFragment(linkFragment), LAMBDA locationLinkPosition :
        IF locationLinkPosition # None
        THEN [kind |-> "file", uri |-> target, position |-> locationLinkPosition,
              fragment |-> <<>>]
        ELSE FileTarget(target))

\* The part of #resolveInternalLinkTarget from the fragment on.  The token
\* is cancelled during the first stat when cancelAt is 1 and between the
\* test after it and the opening of the document when cancelAt is 2.
resolveFragmentTarget(documents, target, linkFragment, cancelAt) ==
    IF linkFragment = <<>> THEN FileTarget(target)
    ELSE Let(parseLocationInfoFromFragment(linkFragment), LAMBDA locationLinkPosition :
        IF locationLinkPosition # None
        THEN [kind |-> "file", uri |-> target, position |-> locationLinkPosition,
              fragment |-> <<>>]
        ELSE IF cancelAt = 2 THEN FileTarget(target)
        ELSE IF CanOpenMarkdownDocument(documents, target)
        THEN Let(lookupByFragment(DocumentAt(documents, target).toc, linkFragment),
                 LAMBDA entry :
                    IF entry # None
                    THEN [kind |-> "file", uri |-> target,
                          position |-> entry.headerLocation.range.start,
                          fragment |-> linkFragment]
                    ELSE FileTarget(target))
        ELSE FileTarget(target))

\* #resolveInternalLinkTarget(linkPath, linkFragment, token); the workspace
\* has no containing documents.
resolveInternalLinkTarget(documents, linkPath, linkFragment, cancelAt) ==
    Let(stat(documents, linkPath), LAMBDA linkStat :
        IF linkStat.isDirectory THEN FolderTarget(linkPath)
        ELSE IF cancelAt = 1 THEN FolderTarget(linkPath)
        ELSE IF ~linkStat.exists
        THEN Let(tryAppendMarkdownFileExtension(linkPath), LAMBDA dotMdResource :
                IF dotMdResource.found /\ stat(documents, dotMdResource.uri).exists
                THEN resolveFragmentTarget(documents, dotMdResource.uri, linkFragment, cancelAt)
                ELSE FileTarget(linkPath))
        ELSE resolveFragmentTarget(documents, linkPath, linkFragment, cancelAt))

\* resolveLinkTarget(linkText, sourceDoc, token)
resolveLinkTarget(documents, linkText, sourceDoc, cancelAt) ==
    Let(createHref(sourceDoc, linkText), LAMBDA href :
        IF href = None THEN Undefined
        ELSE IF href.kind # "Internal" THEN Undefined
        ELSE Let(resolveInternalDocumentLink(sourceDoc, linkText), LAMBDA resolved :
                resolveInternalLinkTarget(documents, resolved.resource,
                                          resolved.linkFragment, cancelAt)))
(***************************************************************************)
(* The link computer as a state machine: a document is typed piece by      *)
(* piece, the tokenizer answers, and getAllLinks computes the links.       *)
(***************************************************************************)
VARIABLES
    vocab,      \* which pieces the document is typed from
    typed,      \* how many pieces were typed
    doc,        \* the text of the document
    tokens,     \* the block tokens the tokenizer returned for doc
    toc,        \* the entries of the table of contents of doc
    links,      \* the result of getAllLinks
    documentLinks, \* the result of provideDocumentLinks
    cursor,     \* the position selection ranges were asked for
    selection,  \* the result of provideSelectionRanges for that position
    lpc,        \* "edit", "tokenized", "done", or what was asked for last
    workspace,  \* the other files of the workspace
    cachedRefs, \* MdRenameProvider.#cachedRefs
    request,    \* the last request to a provider
    result      \* its result

linkVars == <<vocab, typed, doc, tokens, toc, links, documentLinks, cursor, selection, lpc,
              workspace, cachedRefs, request, result>>

MaxPieces == 4

\* The URI of the document that is typed.
DocumentUri == << <<"a", ".", "m", "d">> >>
\* The most pieces of inline markup a document is typed from.
MaxMarkupPieces == 3

\* Pieces of inline syntax.
InlinePieces ==
    { <<"[", "a", "]">>, <<"[", "a">>, <<"]", "(", "b", ")">>, <<":">>, <<"<", "#", ">">>,
      <<"<", "a", "b", ":", "x", ">">>, <<"!">>, <<BT>>, <<NL>>, FenceMarker \o <<NL>> }

\* Lines of reference links and link definitions.
ReferencePieces ==
    { <<"[", "a", "]", NL>>, <<"[", "A", "]", NL>>, <<"[", "b", "]", "[", "A", "]", NL>>,
      <<"[", "a", "]", ":", " ", "b", NL>>, <<"[", "A", "]", ":", " ", "x", NL>>,
      <<"[", "a", "]", ":", " ", "a", "b", ":", "x", NL>>, <<"a", NL>>,
      <<"[", "a", "]", "(", "b", ")", NL>>, <<"<", "a", "b", ":", "x", ">", NL>> }

\* Pieces of inline markup, and lines of blocks.
SelectInlinePieces ==
    { <<"*", "*", "a", "b", "c", "*", "*">>, <<"*", "a", "b", "*">>,
      <<"*", "*", "a", "*", "a", "b", "*", "c", "*", "*">>,
      <<"[">>, <<"]", "(", "b", ")">>, <<BT>> }
SelectBlockPieces ==
    { <<"#", " ", "a", NL>>, <<"#", "#", " ", "a", NL>>, FenceMarker \o <<NL>>,
      <<"a", NL>>, <<"-", " ", "a", NL>>, <<NL>> }

\* The most lines of a document that renames are asked for.
MaxRenameLines == 3
\* The most lines of a document that is moved by a rename of files.
MaxMovedLines == 2
\* The most lines of a document that is the target of a link.
MaxTargetLines == 3
\* The most pieces of a document that selection ranges are asked for at
\* several positions, and the most positions of a request.
MaxBatchPieces == 3
MaxPositions == 2
MaxCacheLines == 2
MaxShorthandPieces == 4
MaxEditedLines == 2
\* The most pieces of a document of nested links.
MaxLinkPieces == 4
\* The most lines of a document that renames of every kind are asked for.
MaxKindLines == 2
\* The most pieces of a document of headers, blocks and inline markup.
MaxLayerPieces == 4

MaxTyped(v) ==
    IF v = "selectInline" THEN MaxMarkupPieces
    ELSE IF v = "rename" THEN MaxRenameLines
    ELSE IF v = "fileRename" THEN MaxMovedLines
    ELSE IF v = "linkTarget" THEN MaxTargetLines
    ELSE IF v = "selectBatch" THEN MaxBatchPieces
    ELSE IF v = "renameCache" THEN MaxCacheLines
    ELSE IF v = "shorthand" THEN MaxShorthandPieces
    ELSE IF v = "linkRenameEdit" THEN MaxEditedLines
    ELSE IF v = "selectLinks" THEN MaxLinkPieces
    ELSE IF v = "renameKinds" THEN MaxKindLines
    ELSE IF v = "selectLayers" THEN MaxLayerPieces
    ELSE MaxPieces

\* Lines of headers, of links to them and of links to a file, for renames.
RenamePieces ==
    { <<"#", " ", "a", NL>>, <<"#", " ", "b", NL>>,
      <<"[", "a", "]", "(", "#", "a", ")", NL>>,
      <<"[", "a", "]", "(", "#", "a", "-", "1", ")", NL>>,
      <<"<", "a", "b", ":", "x", ">", NL>>,
      <<"[", "a", "]", ":", " ", "b", NL>>,
      <<"[", "a", "]", "(", "b", ".", "m", "d", ")", NL>> }

\* Lines of links to files, for renames of files.
FileRenamePieces ==
    { <<"[", "a", "]", "(", "b", ".", "m", "d", ")", NL>>,
      <<"[", "a", "]", "(", ".", "/", "b", ".", "m", "d", "#", "a", ")", NL>>,
      <<"[", "a", "]", "(", "/", "x", ".", "m", "d", ")", NL>>,
      <<"[", "a", "]", "(", "d", "/", "b", ".", "m", "d", ")", NL>>,
      <<"[", "a", "]", "(", "#", "a", ")", NL>>,
      <<"<", "a", "b", ":", "x", ">", NL>>,
      <<"[", "a", "]", NL>>,
      <<"[", "a", "]", ":", " ", "x", NL>> }

\* Lines of headers and of text, for the targets of links.
LinkTargetPieces ==
    { <<"#", " ", "a", NL>>, <<"#", " ", "1", NL>>, <<"#", " ", "b", NL>>, <<"a", NL>> }

\* A header, a link to it and a line of text, for renames asked one after
\* another.
RenameCachePieces ==
    { <<"#", " ", "a", NL>>, <<"[", "a", "]", "(", "#", "a", ")", NL>>, <<"a", NL>> }

\* Bracketed names, one of them with "!" in front, the boxes of task lists,
\* and the markers of list items and of block quotes.
ShorthandPieces ==
    { <<"[", "!", "a", "]">>, <<"[", "x", "]">>, <<"[", "X", "]">>, <<"[", " ", "]">>,
      <<"-", " ">>, <<"*", " ">>, <<"+", " ">>, <<">", " ">>, <<" ">>, <<NL>> }

\* Lines of links to a file, with and without angle brackets and fragments.
LinkRenameEditPieces ==
    { <<"[", "a", "]", "(", "b", ".", "m", "d", ")", NL>>,
      <<"[", "a", "]", "(", "b", ".", "m", "d", "#", "a", ")", NL>>,
      <<"[", "a", "]", "(", "<", "b", ".", "m", "d", ">", ")", NL>>,
      <<"[", "a", "]", "(", "<", "b", " ", "c", ".", "m", "d", "#", "a", ">", ")", NL>>,
      <<"[", "a", "]", ":", " ", "<", "b", ".", "m", "d", ">", NL>>,
      <<"[", "a", "]", ":", " ", "b", ".", "m", "d", NL>> }

\* Brackets, bracketed names, a target and an image link, for links inside
\* links.
SelectLinkPieces ==
    { <<"[">>, <<"]">>, <<"[", "a", "]">>, <<"[", "b", "]">>, <<"]", "(", "b", ")">>,
      <<"!", "[", "a", "]", "(", "b", ")">> }

\* A header, a line of text, the marker of a list item, and inline markup,
\* for selections through all the layers.
SelectLayerPieces ==
    { <<"#", " ", "a", NL>>, <<"a", NL>>, <<"-", " ">>,
      <<"*", "a", "b", "*">>, <<"[", "a", "]", "(", "b", ")">>, <<BT, "a", BT>> }

\* A header, a link to it, an autolink, a definition, a reference link,
\* and links to a file with an extension, to a file that does not exist
\* and to a file without an extension, for renames of every kind.
RenameKindPieces ==
    { <<"#", " ", "a", NL>>, <<"[", "a", "]", "(", "#", "a", ")", NL>>,
      <<"<", "a", "b", ":", "x", ">", NL>>, <<"[", "a", "]", ":", " ", "b", NL>>,
      <<"[", "a", "]", NL>>, <<"[", "a", "]", "(", "b", ".", "m", "d", ")", NL>>,
      <<"[", "a", "]", "(", "c", ".", "m", "d", ")", NL>>,
      <<"[", "a", "]", "(", "x", ")", NL>> }

Pieces(v) ==
    CASE v = "inline" -> InlinePieces
      [] v = "renameKinds" -> RenameKindPieces
      [] v = "selectLayers" -> SelectLayerPieces
      [] v = "selectLinks" -> SelectLinkPieces
      [] v = "linkRenameEdit" -> LinkRenameEditPieces
      [] v = "shorthand" -> ShorthandPieces
      [] v = "renameCache" -> RenameCachePieces
      [] v = "linkTarget" -> LinkTargetPieces
      [] v = "fileRename" -> FileRenamePieces
      [] v = "rename" -> RenamePieces
      [] v = "refs"   -> ReferencePieces
      [] v = "selectInline" -> SelectInlinePieces
      [] v = "selectBlock"  -> SelectBlockPieces
      [] v = "selectBatch"  -> SelectBlockPieces


\* A file of the workspace before the caches of the workspace hold its
\* table of contents and its links.
MdFile(uri, text) ==
    [uri |-> uri, fragment |-> <<>>, version |-> 0, text |-> text, toc |-> <<>>, links |-> <<>>]

\* A document inside the file of that URI, that the fragment names.
SubDocument(uri, fragment, version, text) ==
    [uri |-> uri, fragment |-> fragment, version |-> version, text |-> text,
     toc |-> <<>>, links |-> <<>>]

\* The other files of the workspace: for renames, a document with a link to
\* the second header a of the document that is typed; for renames of files,
\* a document beside the typed one and two documents two directories down
\* with links out of their directory;
\* for the targets of links, a file that is no Markdown document and a
\* document in a directory; for renames asked one after another, two
\* documents inside one file; for renames of every kind, a document and a
\* file without an extension.
Workspace(v) ==
    IF v = "rename"
    THEN << MdFile(<< <<"b", ".", "m", "d">> >>,
                   <<"[", "a", "]", "(", "a", ".", "m", "d", "#", "a", "-", "1", ")", NL>>) >>
    ELSE IF v = "fileRename"
    THEN << MdFile(<< <<"b", ".", "m", "d">> >>,
                   <<"[", "a", "]", "(", "x", ".", "m", "d", ")", NL>>),
            MdFile(<< <<"c">>, <<"d">>, <<"b", ".", "m", "d">> >>,
                   <<"[", "a", "]", "(", ".", ".", "/", "a", ".", "m", "d", ")", NL,
                     "[", "a", "]", "(", ".", ".", "/", "d", "/", "x", ".", "m", "d", ")", NL>>),
            MdFile(<< <<"c">>, <<"d">>, <<"c", ".", "m", "d">> >>,
                   <<"[", "a", "]", "(", ".", ".", "/", ".", ".", "/", "a", ".", "m", "d", ")", NL>>) >>
    ELSE IF v = "linkTarget"
    THEN << MdFile(<< <<"x">> >>, <<"#", " ", "a", NL>>),
            MdFile(<< <<"c">>, <<"b", ".", "m", "d">> >>, <<"#", " ", "a", NL>>) >>
    ELSE IF v = "renameKinds"
    THEN << MdFile(<< <<"b", ".", "m", "d">> >>, <<"a", NL>>),
            MdFile(<< <<"x">> >>, <<"a", NL>>) >>
    ELSE IF v = "renameCache"
    THEN << SubDocument(<< <<"n", ".", "m", "d">> >>, <<"c", "1">>, 1,
                        <<"#", " ", "a", NL, "[", "a", "]", "(", "#", "a", ")", NL>>),
            SubDocument(<< <<"n", ".", "m", "d">> >>, <<"c", "2">>, 1,
                        <<"#", " ", "b", NL>>) >>
    ELSE <<>>

\* The caches of the workspace for the other files.
IndexWorkspace(files) ==
    [n \in 1..Len(files) |-> MdDocument(files[n].uri, files[n].fragment, files[n].version, files[n].text)]

LinkInit(v) ==
    /\ vocab = v
    /\ typed = 0
    /\ doc = <<>>
    /\ tokens = <<>>
    /\ toc = <<>>
    /\ links = <<>>
    /\ documentLinks = <<>>
    /\ cursor = None
    /\ selection = <<>>
    /\ lpc = "edit"
    /\ workspace = Workspace(v)
    /\ cachedRefs = None
    /\ request = None
    /\ result = None

\* The user types a piece of text.
Type ==
    /\ lpc = "edit" \/ (vocab = "renameCache" /\ lpc \in {"prepared", "renamed"})
    /\ typed < MaxTyped(vocab)
    /\ \E p \in Pieces(vocab) : doc' = doc \o p
    /\ typed' = typed + 1
    /\ lpc' = "edit"
    /\ UNCHANGED <<vocab, tokens, toc, links, documentLinks, cursor, selection, workspace, cachedRefs, request, result>>

\* The tokenizer and the table of contents provider answer for the document.
Tokenize ==
    /\ lpc = "edit"
    /\ tokens' = tokenize(doc)
    /\ toc' = TocEntries(doc)
    /\ lpc' = "tokenized"
    /\ UNCHANGED <<vocab, typed, doc, links, documentLinks, cursor, selection, workspace, cachedRefs, request, result>>

\* MdLinkComputer.getAllLinks
GetAllLinks ==
    /\ lpc = "tokenized"
    /\ links' = getAllLinks(DocumentUri, doc, tokens)
    /\ workspace' = IndexWorkspace(workspace)
    /\ lpc' = "done"
    /\ UNCHANGED <<vocab, typed, doc, tokens, toc, documentLinks, cursor, selection, cachedRefs, request, result>>

\* MdLinkProvider.provideDocumentLinks, once the links are there.
ProvideDocumentLinks ==
    /\ lpc = "done"
    /\ \E isCancellationRequested \in BOOLEAN :
          /\ documentLinks' = provideDocumentLinks(links, isCancellationRequested)
          /\ lpc' = IF isCancellationRequested THEN "cancelled" ELSE "provided"
    /\ UNCHANGED <<vocab, typed, doc, tokens, toc, links, cursor, selection, workspace, cachedRefs, request, result>>

LinkNext == Type \/ Tokenize \/ GetAllLinks \/ ProvideDocumentLinks

Positions(document) ==
    UNION { {Pos(l, c) : c \in 0..Len(getLine(document, l))} : l \in 0..(LineCount(document) - 1) }

\* MdSelectionRangeProvider.provideSelectionRanges for one position; a
\* cancelled request gives undefined.
ProvideSelectionRanges ==
    /\ lpc = "done"
    /\ \/ \E position \in Positions(doc) :
             /\ cursor' = position
             /\ selection' = provideSelectionRange(doc, position, toc, tokens, links)
             /\ lpc' = "selected"
       \/ /\ cursor' = None
          /\ selection' = <<>>
          /\ lpc' = "cancelled"
    /\ UNCHANGED <<vocab, typed, doc, tokens, toc, links, documentLinks, workspace, cachedRefs, request, result>>

SelectNext == Type \/ Tokenize \/ GetAllLinks \/ ProvideSelectionRanges

SpecLinks == LinkInit("inline") /\ [][LinkNext]_linkVars
SpecRefs  == LinkInit("refs") /\ [][LinkNext]_linkVars
SpecShorthand == LinkInit("shorthand") /\ [][LinkNext]_linkVars
SpecSelectLinks == LinkInit("selectLinks") /\ [][SelectNext]_linkVars
SpecSelectLayers == LinkInit("selectLayers") /\ [][SelectNext]_linkVars
SpecSelect ==
    (LinkInit("selectInline") \/ LinkInit("selectBlock")) /\ [][SelectNext]_linkVars

(***************************************************************************)
(* C1: every link's source range contains its href range, and a fragment   *)
(* range, when present, is well-formed (start <= end) and lies in the href *)
(* range.                                                                  *)
(***************************************************************************)
LinkRangesNested(link) ==
    /\ rangeContains(link.source.range, link.source.hrefRange)
    /\ link.source.hrefFragmentRange # None =>
          /\ isBeforeOrEqual(link.source.hrefFragmentRange.start, link.source.hrefFragmentRange.end)
          /\ rangeContains(link.source.hrefRange, link.source.hrefFragmentRange)

C1_RangesNested ==
    lpc \in {"done", "provided", "cancelled"} => \A n \in 1..Len(links) : LinkRangesNested(links[n])

(***************************************************************************)
(* C2: no link starts inside a fenced or indented code block, an HTML      *)
(* block or an inline code span.                                           *)
(***************************************************************************)
InsideCode(position) ==
    LET spans == MatchAll(inlineCodePattern, doc)
    IN \/ \E k \in 1..Len(tokens) :
             /\ tokens[k].type \in {"fence", "code_block", "html_block"}
             /\ position.line >= tokens[k].map[1] /\ position.line < tokens[k].map[2]
       \/ \E n \in 1..Len(spans) :
             /\ isBeforeOrEqual(positionAt(doc, spans[n].index), position)
             /\ isBefore(position, positionAt(doc, spans[n].end))

C2_NoLinkStartsInCode ==
    lpc \in {"done", "provided", "cancelled"} => \A n \in 1..Len(links) : ~InsideCode(links[n].source.range.start)

(***************************************************************************)
(* C5: a reference link whose name equals, ignoring case, the name of one  *)
(* or several definitions gets from provideDocumentLinks a target at the   *)
(* href start of the first of them in the document, as line + 1 and        *)
(* character + 1, and at no later one.                                     *)
(***************************************************************************)
EqualIgnoringCase(a, b) ==
    /\ Len(a) = Len(b)
    /\ \A i \in 1..Len(a) : a[i] = b[i] \/ {a[i], b[i]} = {"a", "A"}

DefinitionsNamed(ref) ==
    {n \in 1..Len(links) :
        links[n].kind = "Definition" /\ EqualIgnoringCase(links[n].ref.text, ref)}

FirstInDocument(ns) ==
    CHOOSE n \in ns :
        \A k \in ns : isBeforeOrEqual(links[n].source.range.start, links[k].source.range.start)

TargetOfFirstDefinition(ref) ==
    LET first == links[FirstInDocument(DefinitionsNamed(ref))]
    IN [fragmentLine      |-> first.source.hrefRange.start.line + 1,
        fragmentCharacter |-> first.source.hrefRange.start.character + 1]

C5_FirstDefinitionWins ==
    lpc = "provided" =>
        /\ \A n \in 1..Len(links) :
              links[n].href.kind = "Reference" /\ DefinitionsNamed(links[n].href.ref) # {} =>
                 \E d \in 1..Len(documentLinks) :
                    /\ documentLinks[d].data = links[n]
                    /\ documentLinks[d].target = TargetOfFirstDefinition(links[n].href.ref)
        /\ \A d \in 1..Len(documentLinks) :
              documentLinks[d].data # None /\ documentLinks[d].data.href.kind = "Reference" =>
                 /\ DefinitionsNamed(documentLinks[d].data.href.ref) # {}
                 /\ documentLinks[d].target = TargetOfFirstDefinition(documentLinks[d].data.href.ref)

\* A reference resolved among two definitions whose names differ from each
\* other in case only, the first of which is not spelled like the reference.
C5_Witness ==
    /\ lpc = "provided"
    /\ \E d \in 1..Len(documentLinks) :
          /\ documentLinks[d].data # None
          /\ documentLinks[d].data.href.kind = "Reference"
          /\ LET ns == DefinitionsNamed(documentLinks[d].data.href.ref)
             IN /\ Cardinality(ns) >= 2
                /\ links[FirstInDocument(ns)].ref.text # documentLinks[d].data.href.ref
                /\ \E k \in ns : links[k].ref.text = documentLinks[d].data.href.ref

(***************************************************************************)
(* C3: in the chain provideSelectionRanges returns, the range of every     *)
(* node is contained in the range of its parent.                           *)
(***************************************************************************)
C3_ChildInParent ==
    lpc = "selected" =>
        \A n \in 1..(Len(selection) - 1) :
            /\ isBeforeOrEqual(selection[n + 1].start, selection[n].start)
            /\ isBeforeOrEqual(selection[n].end, selection[n + 1].end)

(***************************************************************************)
(* C4: in the chain provideSelectionRanges returns, no node has the range  *)
(* of its direct parent.                                                   *)
(***************************************************************************)
C4_NoRangeEqualToParent ==
    lpc = "selected" =>
        \A n \in 1..(Len(selection) - 1) : selection[n] # selection[n + 1]

\* The cursor is below a heading whose section is the whole content of the
\* section of the heading before it: the range computed for the inner
\* section is the range of the parent it would get, and is in the chain.
C4_Witness ==
    /\ lpc = "selected"
    /\ \E i, j \in 1..Len(toc) :
          /\ toc[j].sectionLocation.range =
                Rng(translatePosition(toc[i].sectionLocation.range.start, 1, 0),
                    toc[i].sectionLocation.range.end)
          /\ cursor.line > toc[j].line
          /\ cursor.line <= toc[j].sectionLocation.range.end.line
          /\ \E n \in 1..Len(selection) : selection[n] = toc[j].sectionLocation.range

\* The name of the reference link is the name of a definition of the
\* document, whatever the case of the letters.
ResolvesToDefinition(link) ==
    \E n \in 1..Len(links) :
        /\ links[n].kind = "Definition"
        /\ ToLower(links[n].ref.text) = ToLower(link.href.ref)

UnresolvedReferenceLinks ==
    {n \in 1..Len(links) : links[n].href.kind = "Reference" /\ ~ResolvesToDefinition(links[n])}

\* The links of the document but for the unresolved reference links.
LinksToEmit ==
    SelectSeq(links, LAMBDA link : link.href.kind = "Reference" => ResolvesToDefinition(link))

(***************************************************************************)
(* C15: provideDocumentLinks gives a document link for a reference link    *)
(* only if its name resolves against the definitions of the document; an   *)
(* external link has its URI as target and an internal link no target      *)
(* (it is resolved later); so the number of document links is the number   *)
(* of links less the number of unresolved reference links.                 *)
(***************************************************************************)
C15_UnresolvedReferencesNotEmitted ==
    lpc = "provided" =>
        /\ Len(documentLinks) = Len(links) - Cardinality(UnresolvedReferenceLinks)
        /\ Len(documentLinks) = Len(LinksToEmit)
        /\ \A n \in 1..Len(LinksToEmit) :
              /\ documentLinks[n].range = LinksToEmit[n].source.hrefRange
              /\ LinksToEmit[n].href.kind = "External"
                    => documentLinks[n].target = [uri |-> LinksToEmit[n].href.uri]
              /\ LinksToEmit[n].href.kind = "Internal" => documentLinks[n].target = None
              /\ LinksToEmit[n].href.kind = "Reference"
                    => /\ documentLinks[n].target # None
                       /\ documentLinks[n].data = LinksToEmit[n]

C15_Witness ==
    /\ lpc = "provided"
    /\ UnresolvedReferenceLinks # {}
    /\ \E n \in 1..Len(documentLinks) : documentLinks[n].target = None
    /\ \E n \in 1..Len(documentLinks) :
          documentLinks[n].target # None /\ "uri" \in DOMAIN documentLinks[n].target
\* The links are those of the document.
LinksComputed == lpc \in {"done", "provided", "cancelled"}

\* The text of the document the link stands for.
SourceText(link) == getText(doc, link.source.range)

\* The text is one pair of brackets whose content starts with "!".
IsBangShorthand(text) ==
    /\ Len(text) >= 3
    /\ text[1] = "[" /\ text[2] = "!" /\ text[Len(text)] = "]"
    /\ \A i \in 2..(Len(text) - 1) : text[i] \notin {"[", "]"}

(***************************************************************************)
(* C16: a bare shorthand whose bracket content starts with "!", such as    *)
(* [!NOTE], never produces a link from getAllLinks, wherever it stands in  *)
(* the document.                                                           *)
(***************************************************************************)
C16_NoLinkOfBangShorthand ==
    LinksComputed => \A n \in 1..Len(links) : ~IsBangShorthand(SourceText(links[n]))

C16_Witness ==
    /\ LinksComputed
    /\ links # <<>>
    /\ \E i \in 1..(Len(doc) - 7) :
          SubSeq(doc, i, i + 7) = <<"[", "!", "a", "]", " ", "[", "x", "]">>

\* The place in the line of the marker of its list item: the first
\* character after the indentation and the markers of block quotes, 0 when
\* there is none.
ItemStart(line) ==
    LET at == {i \in 1..Len(line) : line[i] \notin {" ", ">"}}
    IN IF at = {} THEN 0 ELSE CHOOSE i \in at : \A k \in at : i <= k

\* A box of a task list is at place j of the line: brackets around x, X or
\* a space, with white space or the end of the line after them.
IsBoxAt(line, j) ==
    /\ j + 2 <= Len(line)
    /\ line[j] = "[" /\ line[j + 1] \in {"x", "X", " "} /\ line[j + 2] = "]"
    /\ j + 3 <= Len(line) => line[j + 3] = " "

\* The column of the checkbox of the list item that the line starts, -1
\* when the line starts no list item with a checkbox.
CheckboxColumn(line) ==
    LET i  == ItemStart(line)
        at == {j \in (i + 2)..Len(line) :
                  /\ IsBoxAt(line, j)
                  /\ \A k \in (i + 1)..(j - 1) : line[k] = " "}
    IN IF i = 0 \/ line[i] \notin {"-", "*", "+"} \/ at = {} THEN -1
       ELSE (CHOOSE j \in at : TRUE) - 1

\* The columns of the bracketed names [x] and [X] that stand between white
\* space after the checkbox of the line.
LaterShorthands(line) ==
    {c \in (CheckboxColumn(line) + 4)..(Len(line) - 3) :
        /\ line[c] = " "
        /\ line[c + 1] = "[" /\ line[c + 2] \in {"x", "X"} /\ line[c + 3] = "]"
        /\ c + 4 <= Len(line) => line[c + 4] = " "}

CheckboxLines == {l \in 0..(LineCount(doc) - 1) : CheckboxColumn(getLine(doc, l)) >= 0}

LinksOfLine(l) == {n \in 1..Len(links) : links[n].source.range.start.line = l}

(***************************************************************************)
(* C17: the checkbox of a task list at the start of a list item ("- [x]",  *)
(* "- [X]", "- [ ]", and the same with "*" or "+") is never returned as a  *)
(* link, while a bracketed shorthand later on the same line still is:      *)
(* "- [x] [x]" gives exactly one reference link, the second bracket.       *)
(***************************************************************************)
C17_CheckboxIsNoLink ==
    LinksComputed =>
        \A l \in CheckboxLines :
            /\ \A n \in LinksOfLine(l) :
                  links[n].source.range.start.character # CheckboxColumn(getLine(doc, l))
            /\ \A c \in LaterShorthands(getLine(doc, l)) :
                  \E n \in LinksOfLine(l) :
                      /\ links[n].href.kind = "Reference"
                      /\ links[n].source.hrefRange = Rng(Pos(l, c + 1), Pos(l, c + 2))
            /\ getLine(doc, l) = <<"-", " ", "[", "x", "]", " ", "[", "x", "]">>
                  => Cardinality(LinksOfLine(l)) = 1

\* The same for the list items that start their line, after white space
\* only.
C17_CheckboxAtLineStartIsNoLink ==
    LinksComputed =>
        \A l \in CheckboxLines :
            (\A i \in 1..Len(getLine(doc, l)) : getLine(doc, l)[i] # ">") =>
            /\ \A n \in LinksOfLine(l) :
                  links[n].source.range.start.character # CheckboxColumn(getLine(doc, l))
            /\ \A c \in LaterShorthands(getLine(doc, l)) :
                  \E n \in LinksOfLine(l) :
                      /\ links[n].href.kind = "Reference"
                      /\ links[n].source.hrefRange = Rng(Pos(l, c + 1), Pos(l, c + 2))
            /\ getLine(doc, l) = <<"-", " ", "[", "x", "]", " ", "[", "x", "]">>
                  => Cardinality(LinksOfLine(l)) = 1
(***************************************************************************)
(* Claims about the passes of getAllLinks.                                 *)
(***************************************************************************)
\* The links of the inline pass and of the reference pass for the document
\* of the state, and the links of the passes after each.
InlinePass == getInlineLinks(DocumentUri, doc, NoLinkRangesCompute(tokens, doc))
ReferencePass ==
    getReferenceLinks(DocumentUri, doc,
                      concatInline(NoLinkRangesCompute(tokens, doc), SourceRanges(InlinePass)))
AfterInlinePass == SubSeq(links, Len(InlinePass) + 1, Len(links))
AfterReferencePass == SubSeq(links, Len(InlinePass) + Len(ReferencePass) + 1, Len(links))

\* The position lies in the range and before its end.
StartsInside(position, range) ==
    isBeforeOrEqual(range.start, position) /\ isBefore(position, range.end)

NoneStartsInside(later, earlier) ==
    \A n \in 1..Len(later), k \in 1..Len(earlier) :
        ~StartsInside(later[n].source.range.start, earlier[k].source.range)

(***************************************************************************)
(* C22: within one getAllLinks invocation, text already claimed by an      *)
(* earlier pass is not matched again by a later pass: no link of the       *)
(* reference, definition or autolink pass starts inside the source range   *)
(* of a link found by the inline pass, and no link of a pass after the     *)
(* reference pass starts inside the source range of a reference link.      *)
(***************************************************************************)
C22_LaterPassesSkipClaimedText ==
    lpc = "done" =>
        /\ links = InlinePass \o AfterInlinePass
        /\ NoneStartsInside(AfterInlinePass, InlinePass)
        /\ NoneStartsInside(AfterReferencePass, ReferencePass)

\* What the reference pass is passed does hold the links of the inline pass.
C22_ReferencePassSkipsInlineLinks ==
    lpc = "done" =>
        /\ links = InlinePass \o AfterInlinePass
        /\ SubSeq(AfterInlinePass, 1, Len(ReferencePass)) = ReferencePass
        /\ NoneStartsInside(ReferencePass, InlinePass)
(***************************************************************************)
(* Claims about the link of a selection.                                   *)
(***************************************************************************)
\* The links whose source range contains the cursor, in the order of
\* getAllLinks, and the one createLinkRange selects: the last of them.
LinksAtCursor == {n \in 1..Len(links) : positionInRange(links[n].source.range, cursor)}
SelectedLink == CHOOSE n \in LinksAtCursor : \A k \in LinksAtCursor : k <= n

(***************************************************************************)
(* C23: among the links of a document whose source range contains the      *)
(* cursor, the one that createLinkRange selects (the last one in           *)
(* getAllLinks output order) is the innermost: its source range is         *)
(* contained in the source range of every other link that contains the     *)
(* cursor.                                                                 *)
(***************************************************************************)
C23_LastLinkIsInnermost ==
    (lpc = "selected" /\ LinksAtCursor # {}) =>
        /\ createLinkRange(cursor, <<>>, links)
              = createLinkRange(cursor, <<>>, <<links[SelectedLink]>>)
        /\ \A n \in LinksAtCursor :
              rangeContains(links[n].source.range, links[SelectedLink].source.range)

StrictlyInside(position, range) == isBefore(range.start, position) /\ isBefore(position, range.end)

(***************************************************************************)
(* C23 for a cursor strictly inside every link that contains it, so that   *)
(* links that only touch at the cursor are left out: the link that         *)
(* createLinkRange selects is the innermost, its source range is contained *)
(* in the source range of every other link that contains the cursor.       *)
(***************************************************************************)
C23_LastLinkIsInnermostInside ==
    (lpc = "selected" /\ LinksAtCursor # {}
        /\ \A n \in LinksAtCursor : StrictlyInside(cursor, links[n].source.range)) =>
        \A n \in LinksAtCursor :
            rangeContains(links[n].source.range, links[SelectedLink].source.range)
(***************************************************************************)
(* Claims about the layers of a selection.                                 *)
(***************************************************************************)
\* The chains of the header layer and of the block layer for the cursor.
HeaderChain == getHeaderSelectionRange(doc, cursor, toc)
BlockChain == getBlockSelectionRange(doc, cursor, HeaderChain, tokens)
InlineChain == createInlineRange(doc, cursor, BlockChain, links)

\* The chain ends with the other chain.
EndsWith(chain, end) ==
    /\ Len(end) <= Len(chain)
    /\ SubSeq(chain, Len(chain) - Len(end) + 1, Len(chain)) = end

BlockTokens == getBlockTokensForPosition(tokens, cursor, HeaderChain)
SpanSize(token) == token.map[2] - token.map[1]
RangeOfBlock(token) == createBlockRange(token, doc, cursor.line, <<>>)[1]

\* The block tokens are the tokens that enclose the line of the cursor and
\* lie within the range of the header layer, if any.
EnclosingBlocks ==
    {n \in 1..Len(tokens) :
        /\ isBlockElement(tokens[n])
        /\ tokens[n].map[1] <= cursor.line /\ cursor.line < tokens[n].map[2]
        /\ HeaderChain # <<>> =>
              /\ tokens[n].map[1] >= HeaderChain[1].start.line
              /\ tokens[n].map[2] <= HeaderChain[1].end.line + 1}

BlockTokensEnclose ==
    /\ Len(BlockTokens) = Cardinality(EnclosingBlocks)
    /\ \A n \in EnclosingBlocks : \E i \in 1..Len(BlockTokens) : BlockTokens[i] = tokens[n]

\* Where the range of the i-th block token stands in the chain of the
\* block layer, 0 when it does not.
PlaceInChain(i) ==
    IF \E p \in 1..Len(BlockChain) : BlockChain[p] = RangeOfBlock(BlockTokens[i])
    THEN CHOOSE p \in 1..Len(BlockChain) : BlockChain[p] = RangeOfBlock(BlockTokens[i])
    ELSE 0

\* The smallest enclosing block is the innermost range of the block layer
\* and the larger blocks are its ancestors, the larger the farther out.
SmallestBlockInnermost ==
    BlockTokens # <<>> =>
        /\ BlockChain[1] = RangeOfBlock(BlockTokens[Len(BlockTokens)])
        /\ \A i \in 1..Len(BlockTokens) : PlaceInChain(i) > 0
        /\ \A i, j \in 1..Len(BlockTokens) :
              SpanSize(BlockTokens[i]) > SpanSize(BlockTokens[j]) =>
                 PlaceInChain(i) >= PlaceInChain(j)

(***************************************************************************)
(* C25 as stated: in the block layer, the block tokens whose line span     *)
(* encloses the cursor (and lies within the header layer's range, if any)  *)
(* are ordered by span size ascending, smallest enclosing block first, and *)
(* each is folded into the chain as the parent of the previous one, so     *)
(* that the smallest enclosing block is the innermost block range and      *)
(* larger enclosing blocks are its ancestors.                              *)
(***************************************************************************)
C25_SmallestFirstFoldedAsParent ==
    lpc = "selected" =>
        /\ BlockTokensEnclose
        /\ \A i, j \in 1..Len(BlockTokens) :
              i < j => SpanSize(BlockTokens[i]) <= SpanSize(BlockTokens[j])
        /\ SmallestBlockInnermost

(***************************************************************************)
(* C25, amended: the block tokens whose line span encloses the cursor (and *)
(* lies within the header layer's range, if any) are ordered by span size  *)
(* descending, largest enclosing block first, and each is folded into the  *)
(* chain as the child of the previous one (the first as the child of the   *)
(* header chain), so that the smallest enclosing block is the innermost    *)
(* block range and larger enclosing blocks are its ancestors.              *)
(***************************************************************************)
C25_LargestFirstFoldedAsChild ==
    lpc = "selected" =>
        /\ BlockTokensEnclose
        /\ \A i, j \in 1..Len(BlockTokens) :
              i < j => SpanSize(BlockTokens[i]) >= SpanSize(BlockTokens[j])
        /\ BlockChain = IF BlockTokens = <<>> THEN <<>>
                        ELSE BlockRangesFrom(BlockTokens, doc, cursor.line, 1, HeaderChain)
        /\ SmallestBlockInnermost

\* The cursor is in a block inside a larger block, below a header.
C25_Witness ==
    /\ lpc = "selected"
    /\ HeaderChain # <<>>
    /\ \E i, j \in 1..Len(BlockTokens) : SpanSize(BlockTokens[i]) > SpanSize(BlockTokens[j])
    /\ Len(BlockChain) >= Len(HeaderChain) + 2
    /\ selection = BlockChain
(***************************************************************************)
(* Claims about the ranges of a fenced code block.                         *)
(***************************************************************************)
\* The fence tokens of the block layer for the cursor.
FencesAtCursor == {i \in 1..Len(BlockTokens) : BlockTokens[i].type = "fence"}

\* The range of the block with its delimiter lines, and of the lines
\* between them.
FenceRange(token) ==
    Rng(Pos(token.map[1], 0), Pos(token.map[2] - 1, Len(getLine(doc, token.map[2] - 1))))
FenceContentRange(token) ==
    Rng(Pos(token.map[1] + 1, 0), Pos(token.map[2] - 2, Len(getLine(doc, token.map[2] - 2))))

\* The cursor is on the first or on the last line of the block.
OnFenceLine(token) == cursor.line = token.map[1] \/ cursor.line = token.map[2] - 1

\* The range of the block is in the chain, and the range of its content is
\* its child there.
HasFenceRange(token) == \E p \in 1..Len(selection) : selection[p] = FenceRange(token)
HasContentRange(token) ==
    \E p \in 2..Len(selection) :
        selection[p] = FenceRange(token) /\ selection[p - 1] = FenceContentRange(token)

(***************************************************************************)
(* C26 as stated: a fenced code block enclosing the cursor yields a        *)
(* two-tier range, the content lines only as inner range and fence         *)
(* delimiters plus content as outer range; the inner content-only range is *)
(* omitted exactly when the block is at most 2 lines long or the cursor is *)
(* on a fence delimiter line.                                              *)
(***************************************************************************)
C26_ContentRangeUnlessTwoLines ==
    lpc = "selected" =>
        \A i \in FencesAtCursor :
            /\ HasFenceRange(BlockTokens[i])
            /\ ~HasContentRange(BlockTokens[i])
                  = (SpanSize(BlockTokens[i]) <= 2 \/ OnFenceLine(BlockTokens[i]))

(***************************************************************************)
(* C26, amended: a fenced code block enclosing the cursor yields the range *)
(* of fence delimiters plus content, and the content lines only as its     *)
(* child; the inner content-only range is omitted exactly when the block   *)
(* is at most 3 lines long (it has at most one content line) or the cursor *)
(* is on the first or the last line of the block.                          *)
(***************************************************************************)
C26_ContentRangeUnlessThreeLines ==
    lpc = "selected" =>
        \A i \in FencesAtCursor :
            /\ HasFenceRange(BlockTokens[i])
            /\ ~HasContentRange(BlockTokens[i])
                  = (SpanSize(BlockTokens[i]) <= 3 \/ OnFenceLine(BlockTokens[i]))

\* The cursor is on a content line of a block of four lines, and the chain
\* has both ranges.
C26_Witness ==
    /\ lpc = "selected"
    /\ \E i \in FencesAtCursor :
          /\ SpanSize(BlockTokens[i]) = 4
          /\ getLine(doc, BlockTokens[i].map[2] - 1) = FenceMarker
          /\ ~OnFenceLine(BlockTokens[i])
          /\ HasContentRange(BlockTokens[i])
          /\ selection[1] = FenceContentRange(BlockTokens[i])

\* The cursor is on the content line of a block of three lines, and the
\* chain has the range of the block only.
C26_WitnessThreeLines ==
    /\ lpc = "selected"
    /\ \E i \in FencesAtCursor :
          /\ SpanSize(BlockTokens[i]) = 3
          /\ getLine(doc, BlockTokens[i].map[2] - 1) = FenceMarker
          /\ ~OnFenceLine(BlockTokens[i])
          /\ selection = <<FenceRange(BlockTokens[i])>>
(***************************************************************************)
(* Claims about the index of the ranges without links.                     *)
(***************************************************************************)
\* The index NoLinkRanges.compute gives for the document, and the same
\* object once getAllLinks has called concatInline on it.
ComputedIndex == NoLinkRangesCompute(tokens, doc)
IndexAfterConcat == NoLinkRangesAfterConcat(ComputedIndex, SourceRanges(InlinePass))

(***************************************************************************)
(* C29: NoLinkRanges.concatInline is purely additive and leaves the        *)
(* receiver unchanged: for every position, contains() on the original      *)
(* index answers the same before and after concatInline was called on it,  *)
(* so the definition and autolink passes of getAllLinks consult exactly    *)
(* the ranges computed by NoLinkRanges.compute, independent of whether a   *)
(* line already held an inline code span.                                  *)
(***************************************************************************)
C29_ConcatLeavesReceiverUnchanged ==
    lpc = "done" =>
        /\ \A position \in Positions(doc) :
              NoLinkRangesContains(IndexAfterConcat, position, "")
                 = NoLinkRangesContains(ComputedIndex, position, "")
        /\ AfterReferencePass
              = getLinkDefinitions(DocumentUri, doc, ComputedIndex)
                \o getAutoLinks(DocumentUri, doc, ComputedIndex)

\* The same for documents in which no line of an inline link holds an
\* inline code span.
NoCodeSpanOnLinkLines ==
    \A n \in 1..Len(InlinePass) :
        \A line \in (InlinePass[n].source.range.start.line)..(InlinePass[n].source.range.end.line) :
            line \in DOMAIN ComputedIndex.inline => ComputedIndex.inline[line] = {}

C29_ConcatLeavesReceiverUnchangedWithoutCodeSpans ==
    (lpc = "done" /\ NoCodeSpanOnLinkLines) =>
        /\ \A position \in Positions(doc) :
              NoLinkRangesContains(IndexAfterConcat, position, "")
                 = NoLinkRangesContains(ComputedIndex, position, "")
        /\ AfterReferencePass
              = getLinkDefinitions(DocumentUri, doc, ComputedIndex)
                \o getAutoLinks(DocumentUri, doc, ComputedIndex)
(***************************************************************************)
(* The rename provider as a state machine: once the links of the typed     *)
(* document are there, the client asks to prepare a rename, and asks for   *)
(* the edits of a rename, at first or after a rename was prepared.         *)
(***************************************************************************)
\* The document that is typed, as the workspace gives it.
OpenDocument ==
    [uri |-> DocumentUri, fragment |-> <<>>, version |-> typed, text |-> doc, toc |-> toc, links |-> links]

Documents == <<OpenDocument>> \o workspace

\* The most awaits of a rename during which the token is cancelled.
MaxRenameAwaits == 5

\* The columns renames are asked at, and the new names.
RenameColumns == {1, 5}
NewNames ==
    IF vocab = "renameKinds"
    THEN { <<"y">>, <<"y", ".", "m", "d">>, <<".", "/", "y">> }
    ELSE { <<"b">> }

RenamePositions(document) ==
    { Pos(l, Min(c, Len(getLine(document, l)))) :
        l \in 0..(LineCount(document) - 2), c \in RenameColumns }

\* The documents renames are asked in: the document that is typed, and any
\* document of the workspace when renames are asked one after another.
RenameDocuments ==
    IF vocab = "renameCache" THEN {Documents[n] : n \in 1..Len(Documents)}
    ELSE {OpenDocument}

\* MdRenameProvider.prepareRename
PrepareRename ==
    /\ lpc = "done" \/ (vocab = "renameCache" /\ lpc \in {"prepared", "renamed"})
    /\ \E document \in RenameDocuments :
       \E position \in RenamePositions(document.text), isCancellationRequested \in BOOLEAN :
          \E r \in {prepareRename(cachedRefs, Documents, document, position,
                                  isCancellationRequested)} :
             /\ request' = [method |-> "prepareRename", uri |-> getDocUri(document),
                            version |-> document.version, position |-> position,
                            newName |-> <<>>,
                            cancelAt |-> IF isCancellationRequested THEN 1 ELSE 0,
                            lookup |-> r.lookup]
             /\ result' = r.result
             /\ cachedRefs' = r.cachedRefs
    /\ lpc' = "prepared"
    /\ UNCHANGED <<vocab, typed, doc, tokens, toc, links, documentLinks, cursor, selection, workspace>>

\* MdRenameProvider.provideRenameEdits
ProvideRenameEdits ==
    /\ \/ lpc = "done"
       \/ lpc = "prepared" /\ result.kind = "value"
       \/ vocab = "renameCache" /\ lpc \in {"prepared", "renamed"}
    /\ \E document \in RenameDocuments :
       \E position \in RenamePositions(document.text), newName \in NewNames,
          cancelAt \in 0..MaxRenameAwaits :
          \E r \in {provideRenameEdits(cachedRefs, Documents, document, position,
                                       newName, cancelAt)} :
             /\ request' = [method |-> "provideRenameEdits", uri |-> getDocUri(document),
                            version |-> document.version, position |-> position,
                            newName |-> newName, cancelAt |-> cancelAt,
                            lookup |-> r.lookup]
             /\ result' = r.result
             /\ cachedRefs' = r.cachedRefs
    /\ lpc' = "renamed"
    /\ UNCHANGED <<vocab, typed, doc, tokens, toc, links, documentLinks, cursor, selection, workspace>>


(***************************************************************************)
(* C10: prepareRename throws RenameNotSupportedAtLocationError exactly     *)
(* when the discovery of references at the position finds no trigger       *)
(* reference or no reference at all and cancellation was not requested;    *)
(* in that situation provideRenameEdits returns undefined and does not     *)
(* throw.                                                                  *)
(***************************************************************************)
NoReferenceSet(position) ==
    LET references == getReferencesAtPosition(Documents, OpenDocument, position, FALSE)
    IN \A n \in 1..Len(references) : ~references[n].isTriggerLocation

C10_ThrowsExactlyWithoutReferences ==
    /\ lpc = "prepared" =>
          (result = RenameNotSupportedAtLocationError
              <=> (request.cancelAt = 0 /\ NoReferenceSet(request.position)))
    /\ (lpc = "renamed" /\ NoReferenceSet(request.position)) => result = Undefined

C10_Witness ==
    /\ lpc = "prepared"
    /\ request.cancelAt = 0
    /\ NoReferenceSet(request.position)
    /\ result = RenameNotSupportedAtLocationError

(***************************************************************************)
(* C6: when provideRenameEdits renames a header, every link to another     *)
(* header of the document whose slug differs, at the same index, between   *)
(* the table of contents of the document and the one of the edited         *)
(* document gets an edit that replaces its fragment with the new slug of   *)
(* that header, and every link to the renamed header gets the slug the     *)
(* header has in the edited document.                                      *)
(***************************************************************************)
\* The text edits of a workspace edit.
TextEdits(edit) ==
    UNION { {edit.documentChanges[n].edits[k] : k \in 1..Len(edit.documentChanges[n].edits)} :
              n \in {m \in 1..Len(edit.documentChanges) : edit.documentChanges[m].kind = "edit"} }

\* The index of the header the request renames: the header on the line of
\* the position, or the header of the typed document that the fragment at
\* the position names; 0 when there is none.
RenamedHeader ==
    LET onLine == {n \in 1..Len(toc) : toc[n].line = request.position.line}
        link   == LinkAtPosition(links, request.position)
        named  == IF /\ link # None
                     /\ link.href.kind = "Internal"
                     /\ InFragment(link, request.position)
                     /\ link.href.path = DocumentUri
                  THEN {n \in 1..Len(toc) : toc[n].slug = link.href.fragment}
                  ELSE {}
    IN IF onLine # {} THEN CHOOSE n \in onLine : TRUE
       ELSE IF named # {} THEN CHOOSE n \in named : TRUE
       ELSE 0

\* The table of contents of the document with the text of a header replaced.
TocWithHeaderRenamed(index, newName) ==
    LET start == LineStartOffset(doc, toc[index].line)
    IN TocEntries(Slice(doc, 0, start) \o <<"#", " ">> \o newName
                  \o Slice(doc, start + Len(getLine(doc, toc[index].line)), Len(doc)))

\* The links of the workspace to the header of the typed document with a slug.
LinksToSlug(slug) ==
    LET all == allLinksInWorkspace(Documents)
    IN {all[n] : n \in {m \in 1..Len(all) :
                          /\ all[m].href.kind = "Internal"
                          /\ all[m].href.path = DocumentUri
                          /\ all[m].href.fragment = slug}}

\* The fragment of the link is replaced by the text, and by nothing else.
FragmentReplacedBy(edits, link, text) ==
    LET at == {e \in edits : e.uri = link.source.resource
                             /\ e.range = link.source.hrefFragmentRange}
    IN at # {} /\ \A e \in at : e.newText = text

C6_RenameCascades ==
    (lpc = "renamed" /\ request.cancelAt = 0 /\ RenamedHeader # 0) =>
        /\ result.kind = "edit"
        /\ LET newToc == TocWithHeaderRenamed(RenamedHeader, request.newName)
           IN \A index \in 1..Len(toc) :
                 (index = RenamedHeader \/ toc[index].slug # newToc[index].slug) =>
                    \A link \in LinksToSlug(toc[index].slug) :
                       FragmentReplacedBy(TextEdits(result.edit), link, newToc[index].slug)

\* A header other than the renamed one changes its slug and has a link.
C6_Witness ==
    /\ lpc = "renamed" /\ request.cancelAt = 0 /\ RenamedHeader # 0
    /\ result.kind = "edit"
    /\ LET newToc == TocWithHeaderRenamed(RenamedHeader, request.newName)
       IN \E index \in 1..Len(toc) :
             /\ index # RenamedHeader
             /\ toc[index].slug # newToc[index].slug
             /\ \E link \in LinksToSlug(toc[index].slug) :
                   FragmentReplacedBy(TextEdits(result.edit), link, newToc[index].slug)

(***************************************************************************)
(* Claims about the edits of a rename of a header.                         *)
(***************************************************************************)
\* The references the rename gathered, and the reference that triggered it.
GatheredReferences == request.lookup.info.references
TriggerRef == request.lookup.info.triggerRef

\* The rename was triggered on a header, or in the fragment of an internal
\* link or of a definition that is not renamed as a reference.
IsFragmentTrigger ==
    \/ TriggerRef.kind = "Header"
    \/ /\ TriggerRef.kind = "Link"
       /\ TriggerRef.link.href.kind = "Internal"
       /\ InFragment(TriggerRef.link, request.position)
       /\ ~(/\ TriggerRef.link.kind = "Definition"
            /\ positionInRange(TriggerRef.link.ref.range, request.position))

\* An uncancelled rename of a fragment returned an edit.
FragmentRenamed ==
    /\ lpc = "renamed"
    /\ request.cancelAt = 0
    /\ request.lookup.info # None
    /\ GatheredReferences # <<>>
    /\ IsFragmentTrigger

\* The slug of the renamed header in the edited document, or the slug of
\* the new text when no header is among the references.
ComputedNewSlug ==
    IF \E n \in 1..Len(GatheredReferences) : GatheredReferences[n].kind = "Header"
    THEN TocWithHeaderRenamed(RenamedHeader, request.newName)[RenamedHeader].slug
    ELSE slugify(request.newName)

\* The edit the last loop of the rename owes a reference.
EditOwed(ref) ==
    IF ref.kind = "Header"
    THEN [uri |-> ref.location.uri, range |-> ref.headerTextLocation.range,
          newText |-> request.newName]
    ELSE [uri |-> ref.link.source.resource,
          range |-> IF ref.link.source.hrefFragmentRange # None
                    THEN ref.link.source.hrefFragmentRange ELSE ref.location.range,
          newText |-> IF \/ ref.link.source.hrefFragmentRange = None
                         \/ ref.link.href.kind = "External"
                      THEN request.newName ELSE ComputedNewSlug]

\* How many text edits of the workspace edit replace that range of that
\* document.
EditsOfRange(edit, uri, range) ==
    { <<n, k>> \in UNION { {<<m, j>> : j \in 1..Len(edit.documentChanges[m].edits)} :
                            m \in {i \in 1..Len(edit.documentChanges) :
                                      edit.documentChanges[i].kind = "edit"} } :
        /\ edit.documentChanges[n].uri = uri
        /\ edit.documentChanges[n].edits[k].range = range }

IsFilePathTrigger ==
    /\ TriggerRef.kind = "Link"
    /\ TriggerRef.link.href.kind = "Internal"
    /\ TriggerRef.link.kind \in {"Link", "Definition"}
    /\ ~InFragment(TriggerRef.link, request.position)
    /\ ~(/\ TriggerRef.link.kind = "Definition"
         /\ positionInRange(TriggerRef.link.ref.range, request.position))

\* A rename of a file path was asked for.
FilePathRenameAsked ==
    /\ lpc = "renamed"
    /\ request.cancelAt # 1
    /\ request.lookup.info # None
    /\ GatheredReferences # <<>>
    /\ IsFilePathTrigger

\* The token was not cancelled while the target of the link was probed.
FilePathRenamed == FilePathRenameAsked /\ request.cancelAt # 2

\* The target of the link as the probe resolves it, or else the path of the
\* href as it is written.
ResolvedTarget == statLinkToMarkdownFile(Documents, TriggerRef.link.href.path).uri

\* The path the new name stands for, seen from the document of the link.
RequestedPath == resolveInternalDocumentLink(TriggerRef.link.source.resource, request.newName).resource

\* The file operations and the text edits of a workspace edit.
FileRenamesOf(edit) == SelectSeq(edit.documentChanges, LAMBDA change : change.kind = "rename")

RECURSIVE TextEditsFrom(_)
TextEditsFrom(changes) ==
    IF changes = <<>> THEN <<>>
    ELSE (IF Head(changes).kind = "edit" THEN Head(changes).edits ELSE <<>>)
         \o TextEditsFrom(Tail(changes))

TextEditsOf(edit) == TextEditsFrom(edit.documentChanges)

LinkReferences == SelectSeq(GatheredReferences, LAMBDA ref : ref.kind = "Link")

\* The text edit rewrites the link of the reference: it replaces the href
\* of the link, with its angle brackets or without, by a text that, read
\* from the document of the link, is the requested path.
RewritesLink(e, ref) ==
    /\ e.uri = ref.link.source.resource
    /\ \/ e.range = ref.link.source.hrefRange
       \/ /\ ref.link.source.isAngleBracketLink
          /\ e.range = Rng(translatePosition(ref.link.source.hrefRange.start, 0, -1),
                           translatePosition(ref.link.source.hrefRange.end, 0, 1))
    /\ resolveInternalDocumentLink(ref.link.source.resource, stripAngleBrackets(e.newText)).resource
          = RequestedPath

\* The edit has the file operation exactly when the target exists, to the
\* requested path with the Markdown extension exactly when the new name has
\* no extension and the target has one, and one text edit for every link
\* among the references.
FilePathEditAsOwed ==
    /\ result.kind = "edit"
    /\ FileRenamesOf(result.edit) # <<>> <=> stat(Documents, ResolvedTarget).exists
    /\ Len(FileRenamesOf(result.edit)) <= 1
    /\ \A n \in 1..Len(FileRenamesOf(result.edit)) :
          LET op == FileRenamesOf(result.edit)[n]
          IN /\ op.oldUri = ResolvedTarget
             /\ IF extname(RequestedPath) = <<>> /\ extname(ResolvedTarget) # <<>>
                THEN op.newUri = appendExtension(RequestedPath, MarkdownExtension)
                ELSE op.newUri = RequestedPath
    /\ Len(TextEditsOf(result.edit)) = Len(LinkReferences)
    /\ \A n \in 1..Len(LinkReferences) :
          Cardinality({k \in 1..Len(TextEditsOf(result.edit)) :
                          RewritesLink(TextEditsOf(result.edit)[k], LinkReferences[n])}) = 1

C28_WitnessNoTarget ==
    /\ FilePathRenamed
    /\ result.kind = "edit"
    /\ ~stat(Documents, ResolvedTarget).exists
    /\ FileRenamesOf(result.edit) = <<>>
    /\ Len(TextEditsOf(result.edit)) >= 1
(***************************************************************************)
(* Claims about a rename that was prepared and is then asked for.          *)
(***************************************************************************)
\* The branch of prepareRename that gave the range and the placeholder.
PreparedTrigger ==
    IF TriggerRef.kind = "Header" THEN "header"
    ELSE IF /\ TriggerRef.link.kind = "Definition"
            /\ positionInRange(TriggerRef.link.ref.range, request.position)
    THEN "definition name"
    ELSE IF TriggerRef.link.href.kind = "External" THEN "external href"
    ELSE IF InFragment(TriggerRef.link, request.position) THEN "fragment"
    ELSE "path"

\* The same, but that the name of a reference link is told from a path.
PreparedTriggerOrReference ==
    IF PreparedTrigger = "path" /\ TriggerRef.link.href.kind = "Reference"
    THEN "reference name"
    ELSE PreparedTrigger

\* The edit of the builder for a trigger, for the references that were
\* prepared; the builder for file paths takes internal hrefs only.
BuiltFor(trigger, newName) ==
    CASE trigger \in {"definition name", "reference name"} ->
            renameReferenceLinks(request.lookup.info, newName)
      [] trigger = "external href" ->
            renameExternalLink(request.lookup.info, newName)
      [] trigger \in {"header", "fragment"} ->
            renameFragment(cachedRefs, Documents, request.lookup.info, newName, 0).result.edit
      [] trigger = "path" ->
            IF TriggerRef.link.href.kind = "Internal"
            THEN renameFilePath(Documents, TriggerRef.link.source.resource, TriggerRef.link.href,
                                request.lookup.info, newName, FALSE)
            ELSE None

\* prepareRename gave a range and a placeholder, and provideRenameEdits is
\* asked next for the same document, version and position, its token never
\* cancelled.
PreparedThenAsked ==
    /\ lpc = "prepared"
    /\ result.kind = "value"
    /\ lpc' = "renamed"
    /\ request'.uri = request.uri
    /\ request'.version = request.version
    /\ request'.position = request.position
    /\ request'.cancelAt = 0

(***************************************************************************)
(* C30: for any document and position, without cancellation: if            *)
(* prepareRename returns a range and placeholder instead of throwing, then *)
(* provideRenameEdits at the same document version and position returns a  *)
(* workspace edit (not undefined) built by exactly one of the four         *)
(* builders (reference, external URL, fragment/header, file path), and the *)
(* builder chosen matches the trigger kind that prepareRename reported the *)
(* placeholder for.                                                        *)
(***************************************************************************)
C30_BuilderMatchesPreparedTrigger ==
    [][ PreparedThenAsked =>
            /\ result'.kind = "edit"
            /\ result'.edit = BuiltFor(PreparedTrigger, request'.newName) ]_linkVars

\* C30 with the name of a reference link as a trigger of its own: the
\* rename that was prepared returns a workspace edit, the one of the
\* reference builder for the name of a definition or of a reference link,
\* of the external builder for an external href, of the fragment builder
\* for a header or a fragment, and of the file path builder for a path.
C30_BuilderMatchesPreparedTriggerOrReference ==
    [][ PreparedThenAsked =>
            /\ result'.kind = "edit"
            /\ result'.edit = BuiltFor(PreparedTriggerOrReference, request'.newName) ]_linkVars

\* The rename of the name of a definition was prepared, and the edits that
\* were then asked for replace that name by the new one.
C30_Witness ==
    /\ lpc = "renamed"
    /\ request.cancelAt = 0
    /\ ~request.lookup.discovered
    /\ request.lookup.info # None
    /\ PreparedTrigger = "definition name"
    /\ result.kind = "edit"
    /\ EditsOfRange(result.edit, TriggerRef.link.source.resource, TriggerRef.link.ref.range) # {}

\* The rename of the name of a reference link was prepared, and the edits
\* that were then asked for replace the name at every link that has it.
C30_WitnessReference ==
    /\ lpc = "renamed"
    /\ request.cancelAt = 0
    /\ ~request.lookup.discovered
    /\ request.lookup.info # None
    /\ PreparedTriggerOrReference = "reference name"
    /\ result.kind = "edit"
    /\ Len(TextEditsOf(result.edit)) >= 2
(***************************************************************************)
(* File renames as a state machine: the document that is typed is a file   *)
(* of the workspace after the renames, and the client asks for the edits   *)
(* of a batch of renames.                                                  *)
(***************************************************************************)
\* The most awaits of a request during which the token is cancelled.
MaxAwaits == 8

UriB   == << <<"b", ".", "m", "d">> >>
UriX   == << <<"x", ".", "m", "d">> >>
UriDA  == << <<"d">>, <<"a", ".", "m", "d">> >>
UriDB  == << <<"d">>, <<"b", ".", "m", "d">> >>
UriD   == << <<"d">> >>
UriC   == << <<"c">> >>
UriCD  == << <<"c">>, <<"d">> >>

\* The batches of renames the client asks about.
Batches ==
    { << FileRename(UriX, DocumentUri) >>,
      << FileRename(UriDA, DocumentUri) >>,
      << FileRename(UriDA, DocumentUri), FileRename(UriDB, UriB) >>,
      << FileRename(UriDB, UriB), FileRename(UriDA, DocumentUri) >>,
      << FileRename(UriD, UriC) >>,
      << FileRename(UriD, UriCD) >>,
      << FileRename(UriB, UriX) >>,
      << FileRename(UriB, UriX), FileRename(UriD, UriCD) >>,
      << FileRename(UriX, DocumentUri), FileRename(UriD, UriCD) >> }

\* MdFileRenameProvider.getRenameFilesInWorkspaceEdit
GetRenameFilesInWorkspaceEdit ==
    /\ lpc = "done"
    /\ \E edits \in Batches, cancelAt \in 0..MaxAwaits :
          /\ request' = [method |-> "getRenameFilesInWorkspaceEdit", edits |-> edits,
                         cancelAt |-> cancelAt]
          /\ result' = getRenameFilesInWorkspaceEdit(Documents, edits, cancelAt)
    /\ lpc' = "filesRenamed"
    /\ UNCHANGED <<vocab, typed, doc, tokens, toc, links, documentLinks, cursor, selection,
                   workspace, cachedRefs>>

FileRenameNext == Type \/ Tokenize \/ GetAllLinks \/ GetRenameFilesInWorkspaceEdit

SpecFileRename == LinkInit("fileRename") /\ [][FileRenameNext]_linkVars

\* Renames of headers, links and files on the documents of headers and links.
RenameNext ==
    Type \/ Tokenize \/ GetAllLinks \/ PrepareRename \/ ProvideRenameEdits
    \/ GetRenameFilesInWorkspaceEdit

SpecRename == LinkInit("rename") /\ [][RenameNext]_linkVars

\* Renames of every kind, prepared and asked for.
RenameKindsNext == Type \/ Tokenize \/ GetAllLinks \/ PrepareRename \/ ProvideRenameEdits

SpecRenameKinds == LinkInit("renameKinds") /\ [][RenameKindsNext]_linkVars
(***************************************************************************)
(* Claims about renames of files.                                          *)
(***************************************************************************)
\* The request renamed a single file and was not cancelled.
SingleFileRenamed ==
    /\ lpc = "filesRenamed"
    /\ Len(request.edits) = 1
    /\ ~stat(Documents, request.edits[1].newUri).isDirectory
    /\ result.kind = "value"

\* The text edits of the result on the href of a link: an edit of a link
\* replaces its href, or its href with the angle brackets around it.
EditsOfLink(link) ==
    {e \in TextEdits(result.edit) :
        /\ e.uri = link.source.resource
        /\ e.range.start.line = link.source.hrefRange.start.line
        /\ e.range.end.line = link.source.hrefRange.end.line
        /\ e.range.start.character <= link.source.hrefRange.start.character
        /\ e.range.end.character >= link.source.hrefRange.end.character}

\* The new text of the edit, read as a link of the document it is in, leads
\* to the resource (with or without its Markdown extension).
LeadsTo(e, resource) ==
    looksLikeLinkToResource(
        [path |-> resolveInternalDocumentLink(e.uri, e.newText).resource], resource)

ReferencesFile(link, resource) ==
    link.href.kind = "Internal" /\ looksLikeLinkToResource(link.href, resource)

LinksOfOtherDocuments(resource) ==
    LET all == allLinksInWorkspace(Documents)
    IN {all[n] : n \in {m \in 1..Len(all) : all[m].source.resource # resource}}

LinksOfDocument(resource) ==
    LET all == allLinksInWorkspace(Documents)
    IN {all[n] : n \in {m \in 1..Len(all) : all[m].source.resource = resource}}

IsDocumentRelative(link) ==
    /\ link.href.kind = "Internal"
    /\ ~StartsWith(link.source.hrefText, <<"#">>)
    /\ ~StartsWith(link.source.hrefText, <<"/">>)

\* (a) every link of another document that references old gets an edit that
\* leads to new.
C7_ReferencesRetargeted ==
    SingleFileRenamed =>
        \A link \in LinksOfOtherDocuments(request.edits[1].newUri) :
            ReferencesFile(link, request.edits[1].oldUri) =>
                /\ EditsOfLink(link) # {}
                /\ \A e \in EditsOfLink(link) : LeadsTo(e, request.edits[1].newUri)

\* (b) when new opens as a Markdown document, every document-relative
\* internal link inside it gets an edit.
C7_RelativeLinksInSelfEdited ==
    (SingleFileRenamed /\ CanOpenMarkdownDocument(Documents, request.edits[1].newUri)) =>
        \A link \in LinksOfDocument(request.edits[1].newUri) :
            IsDocumentRelative(link) => EditsOfLink(link) # {}

RenamesOf(allEdits, resource) ==
    {n \in 1..Len(allEdits) :
        \/ isSameResource(allEdits[n].oldUri, resource)
        \/ isParentDir(allEdits[n].oldUri, resource)}

NewLocations(allEdits, resource) ==
    {joinPath(allEdits[n].newUri, relative(allEdits[n].oldUri, resource)) :
        n \in RenamesOf(allEdits, resource)}

\* The renames of the batch that moved a file which opens as a document.
MovedDocuments ==
    {k \in 1..Len(request.edits) :
        /\ ~stat(Documents, request.edits[k].newUri).isDirectory
        /\ CanOpenMarkdownDocument(Documents, request.edits[k].newUri)}

\* What the link of a moved document led to before rename k.
OldTarget(k, link) ==
    resolveInternalDocumentLink(request.edits[k].oldUri, link.source.hrefText).resource

(***************************************************************************)
(* C8: within a batch of renames, a document-relative link inside a moved  *)
(* Markdown file that led, from the old location of the file, to a         *)
(* resource that a rename of the batch moves (the resource is an oldUri or *)
(* lies in a renamed directory) gets an edit whose text, read from the new *)
(* location of the file, leads to the new location of that resource.       *)
(***************************************************************************)
C8_BatchRenamesChained ==
    (lpc = "filesRenamed" /\ result.kind = "value") =>
        \A k \in MovedDocuments :
            \A link \in LinksOfDocument(request.edits[k].newUri) :
                (IsDocumentRelative(link)
                 /\ RenamesOf(request.edits, OldTarget(k, link)) # {}) =>
                    /\ EditsOfLink(link) # {}
                    /\ \A e \in EditsOfLink(link) :
                          \E to \in NewLocations(request.edits, OldTarget(k, link)) :
                              LeadsTo(e, to)

\* A link of a moved file led to a file that another rename of the batch
\* moves, and its edit leads to where that file is now.
C8_Witness ==
    /\ lpc = "filesRenamed" /\ result.kind = "value"
    /\ \E k \in MovedDocuments :
          \E link \in LinksOfDocument(request.edits[k].newUri) :
              /\ IsDocumentRelative(link)
              /\ RenamesOf(request.edits, OldTarget(k, link)) # {}
              /\ k \notin RenamesOf(request.edits, OldTarget(k, link))
              /\ \E e \in EditsOfLink(link) :
                    \E to \in NewLocations(request.edits, OldTarget(k, link)) :
                        LeadsTo(e, to)
(***************************************************************************)
(* Claims about cancelled renames.                                         *)
(***************************************************************************)
EmptyEdit == getEdit(NewWorkspaceEditBuilder)

\* What the requests give when the token is never cancelled.
FullRenameEdits ==
    provideRenameEdits(None, Documents, OpenDocument, request.position, request.newName, 0).result
FullRenameFilesEdit == getRenameFilesInWorkspaceEdit(Documents, request.edits, 0)

(***************************************************************************)
(* C13: getRenameFilesInWorkspaceEdit and provideRenameEdits never return  *)
(* a partially built edit batch: a request whose token is cancelled during *)
(* one of its lookups gives undefined or an edit without changes, and      *)
(* every other result is the whole result of the request, with the edits   *)
(* of every rename of the batch, or of every reference.                    *)
(***************************************************************************)
C13_NoPartialEditBatch ==
    /\ lpc = "filesRenamed" =>
          IF request.cancelAt \in 1..FullRenameFilesEdit.awaits
          THEN result.kind = "undefined"
          ELSE result = FullRenameFilesEdit
    /\ lpc = "renamed" =>
          \/ result = Undefined
          \/ result = [kind |-> "edit", edit |-> EmptyEdit]
          \/ result = FullRenameEdits
    /\ (lpc = "renamed" /\ request.cancelAt = 0) => result = FullRenameEdits

\* The token is cancelled during the second rename of a batch whose first
\* rename has added edits, and the result is undefined.
C13_Witness ==
    /\ lpc = "filesRenamed"
    /\ Len(request.edits) = 2
    /\ FullRenameFilesEdit.participatingRenames # <<>>
    /\ FullRenameFilesEdit.participatingRenames[1] = request.edits[1]
    /\ request.cancelAt \in 6..FullRenameFilesEdit.awaits
    /\ result.kind = "undefined"
\* The text edits that rename k of the batch adds to a builder.
EditsOfRename(k) ==
    LET st == [builder |-> NewWorkspaceEditBuilder, awaits |-> 0]
    IN (IF stat(Documents, request.edits[k].newUri).isDirectory
        THEN addDirectoryRenameEdits(Documents, request.edits[k], st, 0)
        ELSE addSingleFileRenameEdits(Documents, request.edits[k], request.edits, st, 0)
       ).st.builder.changes

RECURSIVE EditsOfRenamesFrom(_)
EditsOfRenamesFrom(k) ==
    IF k > Len(request.edits) THEN <<>> ELSE EditsOfRename(k) \o EditsOfRenamesFrom(k + 1)

\* The renames of the batch that add a text edit, in the order of the batch.
RenamesWithEdits ==
    LET with == Ascending({k \in 1..Len(request.edits) : EditsOfRename(k) # <<>>})
    IN [i \in 1..Len(with) |-> request.edits[with[i]]]

(***************************************************************************)
(* C18: in the response of getRenameFilesInWorkspaceEdit,                  *)
(* participatingRenames is the sub-sequence, in the order of the input,   *)
(* of the renames for which a text edit was added to the returned          *)
(* workspace edit: a rename without an edit is not listed and a rename     *)
(* with one is not missing.                                                *)
(***************************************************************************)
C18_ParticipatingRenamesAddedEdits ==
    (lpc = "filesRenamed" /\ result.kind = "value") =>
        /\ result.participatingRenames = RenamesWithEdits
        /\ TextEdits(result.edit) = {EditsOfRenamesFrom(1)[n] : n \in 1..Len(EditsOfRenamesFrom(1))}

C18_Witness ==
    /\ lpc = "filesRenamed" /\ result.kind = "value"
    /\ Len(request.edits) = 2
    /\ EditsOfRename(1) = <<>>
    /\ result.participatingRenames = <<request.edits[2]>>
\* The request renamed a single directory and was not cancelled.
DirectoryRenamed ==
    /\ lpc = "filesRenamed"
    /\ Len(request.edits) = 1
    /\ stat(Documents, request.edits[1].newUri).isDirectory
    /\ result.kind = "value"

AllLinks == LET all == allLinksInWorkspace(Documents) IN {all[n] : n \in 1..Len(all)}

\* The links into the old directory: internal links, not of a fragment
\* only, whose path is below it.
LinksInto(oldUri) ==
    {link \in AllLinks : /\ IsDocumentRelative(link)
                         /\ isParentDir(oldUri, link.href.path)}

\* The links that start with '..' of the files below the new directory, that
\* do not lead into the old one.
LinksOutOf(oldUri, newUri) ==
    {link \in AllLinks : /\ IsDocumentRelative(link)
                         /\ ~isParentDir(oldUri, link.href.path)
                         /\ StartsWith(link.source.hrefText, <<".", ".">>)
                         /\ isParentDir(newUri, link.source.resource)}

\* The path of the link as its file had it before the move, written from
\* where the file is now.
ReExpressedPath(link, oldUri, newUri) ==
    LET oldDocUri == joinPath(oldUri, relative(newUri, link.source.resource))
        target    == resolveInternalDocumentLink(oldDocUri, link.source.hrefText).resource
    IN IF isParentDir(oldUri, target)
       THEN <<".", "/">> \o relative(dirname(oldDocUri), target)
       ELSE relative(dirname(link.source.resource), target)

LinkTexts ==
    { <<"a", ".", "m", "d", "#", "a">>, <<"a", ".", "m", "d", "#", "1">>,
      <<"a", ".", "m", "d", "#", "a", "-", "1">>, <<"a", "#", "b">>,
      <<"a", ".", "m", "d", "#", "L", "1", ",", "2">>, <<"a", ".", "m", "d">>,
      <<"x", "#", "a">>, <<"x", "#", "1">>, <<"d", "#", "a">>, <<"d", ".", "m", "d", "#", "1">>,
      <<"c", "#", "a">>, <<"c", "/", "b", "#", "a">>, <<"#", "a">>, <<"a", "b", ":", "x">> }

\* MdLinkProvider.resolveLinkTarget
ResolveLinkTarget ==
    /\ lpc = "done"
    /\ \E linkText \in LinkTexts, cancelAt \in 0..2 :
          /\ request' = [method |-> "resolveLinkTarget", linkText |-> linkText,
                         sourceDoc |-> UriB, cancelAt |-> cancelAt]
          /\ result' = resolveLinkTarget(Documents, linkText, UriB, cancelAt)
    /\ lpc' = "resolved"
    /\ UNCHANGED <<vocab, typed, doc, tokens, toc, links, documentLinks, cursor, selection,
                   workspace, cachedRefs>>

LinkTargetNext == Type \/ Tokenize \/ GetAllLinks \/ ResolveLinkTarget

SpecLinkTarget == LinkInit("linkTarget") /\ [][LinkTargetNext]_linkVars
(***************************************************************************)
(* Claims about the targets of links.                                      *)
(***************************************************************************)
\* What the text of the request resolves to, and the file it leads to: the
\* resolved path, or that path with the Markdown extension.
RequestedLink == resolveInternalDocumentLink(request.sourceDoc, request.linkText)
RequestedFile == statLinkToMarkdownFile(Documents, RequestedLink.resource)

\* resolveLinkTarget was asked, without cancellation, about an internal link
\* text with a fragment that does not lead to a folder.
FragmentResolved ==
    /\ lpc = "resolved"
    /\ request.cancelAt = 0
    /\ createHref(request.sourceDoc, request.linkText) # None
    /\ createHref(request.sourceDoc, request.linkText).kind = "Internal"
    /\ RequestedLink.linkFragment # <<>>
    /\ ~stat(Documents, RequestedLink.resource).isDirectory

\* The header of the target document whose slug is the fragment, if the
\* target opens as a document and has one.
RequestedHeader ==
    IF RequestedFile.found /\ CanOpenMarkdownDocument(Documents, RequestedFile.uri)
    THEN lookupByFragment(DocumentAt(Documents, RequestedFile.uri).toc,
                          RequestedLink.linkFragment)
    ELSE None

IsLineColumnToken(fragment) == parseLocationInfoFromFragment(fragment) # None

(***************************************************************************)
(* C9 as stated: resolveLinkTarget on an internal link text with a         *)
(* fragment returns a target of kind 'file' whose position is the start of *)
(* the header whose slug is the fragment when the target document has such *)
(* a header; when no header slug matches (and the fragment is no           *)
(* line/column token) or the target does not open as a document, it        *)
(* returns a 'file' target with no position.                               *)
(***************************************************************************)
C9_HeaderPositionOrNone ==
    FragmentResolved =>
        /\ result.kind = "file"
        /\ RequestedHeader # None =>
              result.position = RequestedHeader.headerLocation.range.start
        /\ (\/ RequestedHeader = None /\ ~IsLineColumnToken(RequestedLink.linkFragment)
            \/ ~(RequestedFile.found /\ CanOpenMarkdownDocument(Documents, RequestedFile.uri)))
              => result.position = None

(***************************************************************************)
(* C9, amended: resolveLinkTarget on an internal link text with a fragment *)
(* returns a target of kind 'file'.  When the target file exists and the   *)
(* fragment is a line/column token, the position is the one the token      *)
(* names, whether or not a header has that slug and whether or not the     *)
(* file opens as a document.  Otherwise the position is the start of the   *)
(* header whose slug is the fragment when the target document has one, and *)
(* there is no position when there is no such header, the target does not  *)
(* open as a document, or the target does not exist.                       *)
(***************************************************************************)
C9_TokenThenHeaderPosition ==
    FragmentResolved =>
        /\ result.kind = "file"
        /\ result.position =
              IF RequestedFile.found /\ IsLineColumnToken(RequestedLink.linkFragment)
              THEN parseLocationInfoFromFragment(RequestedLink.linkFragment)
              ELSE IF RequestedHeader # None
              THEN RequestedHeader.headerLocation.range.start
              ELSE None

\* The fragment is the slug of a header below the first line, it is no
\* line/column token, and the position is the start of the header.
C9_Witness ==
    /\ FragmentResolved
    /\ ~IsLineColumnToken(RequestedLink.linkFragment)
    /\ RequestedHeader # None
    /\ RequestedHeader.headerLocation.range.start.line > 0
    /\ result.position = RequestedHeader.headerLocation.range.start

(***************************************************************************)
(* C12: when the cancellation token becomes requested at a suspension      *)
(* point of an operation, the operation returns an empty or undefined      *)
(* result and does not throw; here for resolveLinkTarget, whose suspension *)
(* points are the stat of the target and the opening of the target         *)
(* document.                                                               *)
(***************************************************************************)
C12_CancelledGivesNothing ==
    (lpc = "resolved" /\ request.cancelAt # 0) => result = Undefined
(***************************************************************************)
(* Claims about the kind of a target.                                      *)
(***************************************************************************)
\* resolveLinkTarget was asked about an internal link text.
InternalResolved ==
    /\ lpc = "resolved"
    /\ createHref(request.sourceDoc, request.linkText) # None
    /\ createHref(request.sourceDoc, request.linkText).kind = "Internal"

\* The path with the Markdown extension is used: the unadorned path does
\* not exist, it has no extension, and the extended path exists.
UsesExtendedPath ==
    /\ ~stat(Documents, RequestedLink.resource).exists
    /\ tryAppendMarkdownFileExtension(RequestedLink.resource).found
    /\ stat(Documents, tryAppendMarkdownFileExtension(RequestedLink.resource).uri).exists

\* The kind and the path the workspace's answers call for.
KindAndPathOfWorkspace ==
    /\ (result.kind = "folder") = stat(Documents, RequestedLink.resource).isDirectory
    /\ (result.kind = "file") = ~stat(Documents, RequestedLink.resource).isDirectory
    /\ result.uri = IF UsesExtendedPath
                    THEN tryAppendMarkdownFileExtension(RequestedLink.resource).uri
                    ELSE RequestedLink.resource

(***************************************************************************)
(* C21: resolveLinkTarget yields a target of kind 'folder' only when the   *)
(* workspace reports the resolved path as a directory, and a target of     *)
(* kind 'file' otherwise, with the '.md'-extended path only when the       *)
(* unadorned path does not exist and the extended one does; in every       *)
(* execution, including those in which cancellation is requested while the *)
(* path is being probed.                                                   *)
(***************************************************************************)
C21_FolderOnlyOfDirectory == InternalResolved => KindAndPathOfWorkspace

\* The same without a cancellation during the probe of the path.
C21_FolderOnlyOfDirectoryUnlessCancelledInProbe ==
    (InternalResolved /\ request.cancelAt # 1) => KindAndPathOfWorkspace
(***************************************************************************)
(* Selection ranges for several positions of one request.                  *)
(***************************************************************************)
\* The positions at the starts of the lines of the document.
LineStartPositions(document) == {Pos(l, 0) : l \in 0..(LineCount(document) - 1)}

PositionBatches(document) ==
    UNION { [1..n -> LineStartPositions(document)] : n \in 1..MaxPositions }

\* MdSelectionRangeProvider.provideSelectionRanges
ProvideSelectionRangesOfPositions ==
    /\ lpc = "done"
    /\ \E positions \in PositionBatches(doc), isCancellationRequested \in BOOLEAN :
          /\ request' = [method |-> "provideSelectionRanges", positions |-> positions,
                         isCancellationRequested |-> isCancellationRequested]
          /\ result' = provideSelectionRanges(doc, positions, toc, tokens, links,
                                              isCancellationRequested)
    /\ lpc' = "selectedAll"
    /\ UNCHANGED <<vocab, typed, doc, tokens, toc, links, documentLinks, cursor, selection,
                   workspace, cachedRefs>>

SelectBatchNext == Type \/ Tokenize \/ GetAllLinks \/ ProvideSelectionRangesOfPositions

SpecSelectBatch == LinkInit("selectBatch") /\ [][SelectBatchNext]_linkVars

(***************************************************************************)
(* C11: provideSelectionRanges returns a list with exactly one entry for   *)
(* every requested position, in the order of the request, the entry being  *)
(* undefined (the empty chain) where no range applies; a position without  *)
(* a result neither removes nor shifts the entries of the others.          *)
(***************************************************************************)
C11_OneEntryPerPosition ==
    (lpc = "selectedAll" /\ ~request.isCancellationRequested) =>
        /\ Len(result) = Len(request.positions)
        /\ \A n \in 1..Len(request.positions) :
              result[n] = provideSelectionRange(doc, request.positions[n], toc, tokens, links)
(***************************************************************************)
(* Renames asked one after another, in the typed document and in the       *)
(* documents inside a file of the workspace, with typing in between.       *)
(***************************************************************************)
RenameCacheNext == Type \/ Tokenize \/ GetAllLinks \/ PrepareRename \/ ProvideRenameEdits

SpecRenameCache == LinkInit("renameCache") /\ [][RenameCacheNext]_linkVars

\* The memo has the URI, the version and the position of the request.
MemoHasKeysOf(memo, req) ==
    /\ memo # None
    /\ memo.resource = req.uri
    /\ memo.version = req.version
    /\ memo.position = req.position

(***************************************************************************)
(* C14: over any sequence of prepareRename and provideRenameEdits calls,   *)
(* the discovery of references is skipped exactly when the URI of the      *)
(* document, its version and the position of the request are those of the  *)
(* memo, and the reference set the call then works with is the one of      *)
(* that URI, version and position; a request that differs in one of the    *)
(* three, a different URI included, runs the discovery again; a cancelled  *)
(* discovery and one without a trigger leave the memo as it was.           *)
(***************************************************************************)
C14_MemoKeyedByUriVersionPosition ==
    [][ lpc' \in {"prepared", "renamed"} =>
            /\ request'.lookup.discovered <=> ~MemoHasKeysOf(cachedRefs, request')
            /\ request'.lookup.info # None => MemoHasKeysOf(request'.lookup.info, request')
            /\ (request'.lookup.discovered /\ request'.lookup.info = None)
                  => cachedRefs' = cachedRefs ]_linkVars
(***************************************************************************)
(* The edit of the target of a link: getLinkRenameEdit for an internal     *)
(* link of the typed document and a new path text.                         *)
(***************************************************************************)
NewPathTexts ==
    { <<"x", ".", "m", "d">>, <<"b", " ", "c", ".", "m", "d">>, <<"b", "(", ".", "m", "d">>,
      <<"(", "b", ")", ".", "m", "d">>, <<"b", " ", ">", ".", "m", "d">>,
      <<"<", "b", ".", "m", "d">> }

\* getLinkRenameEdit(link, newPathText)
GetLinkRenameEdit ==
    /\ lpc = "done"
    /\ \E n \in 1..Len(links), newPathText \in NewPathTexts :
          /\ links[n].href.kind = "Internal"
          /\ request' = [method |-> "getLinkRenameEdit", link |-> links[n],
                         newPathText |-> newPathText]
          /\ result' = getLinkRenameEdit(links[n], newPathText)
    /\ lpc' = "edited"
    /\ UNCHANGED <<vocab, typed, doc, tokens, toc, links, documentLinks, cursor, selection,
                   workspace, cachedRefs>>

LinkRenameEditNext == Type \/ Tokenize \/ GetAllLinks \/ GetLinkRenameEdit

SpecLinkRenameEdit == LinkInit("linkRenameEdit") /\ [][LinkRenameEditNext]_linkVars

\* The document after the text edit.
ApplyTextEdit(document, textEdit) ==
    Slice(document, 0, offsetAt(document, textEdit.range.start))
    \o textEdit.newText
    \o Slice(document, offsetAt(document, textEdit.range.end), Len(document))

\* The new text of the target: the new path with the fragment of the link.
NewTargetText ==
    IF request.link.href.fragment # <<>>
    THEN request.newPathText \o <<"#">> \o request.link.href.fragment
    ELSE request.newPathText

\* The text without the backslashes in front of angle brackets.
RECURSIVE Unescaped(_)
Unescaped(text) ==
    IF text = <<>> THEN <<>>
    ELSE IF Len(text) >= 2 /\ text[1] = BS /\ text[2] \in {"<", ">"}
    THEN <<text[2]>> \o Unescaped(Tail(Tail(text)))
    ELSE <<text[1]>> \o Unescaped(Tail(text))

\* The offsets of the target of the link of the request in the document,
\* with its angle brackets when it has them.
TargetStart ==
    offsetAt(doc, request.link.source.hrefRange.start)
        - (IF request.link.source.isAngleBracketLink THEN 1 ELSE 0)
TargetEnd ==
    offsetAt(doc, request.link.source.hrefRange.end)
        + (IF request.link.source.isAngleBracketLink THEN 1 ELSE 0)

\* The target of the link in the document after the edit.
NewTarget ==
    Slice(ApplyTextEdit(doc, result), TargetStart,
          Len(ApplyTextEdit(doc, result)) - (Len(doc) - TargetEnd))

(***************************************************************************)
(* C19: after the edit of getLinkRenameEdit is applied, the target of the  *)
(* link has angle brackets exactly if the new text of the target (the new  *)
(* path with the fragment of the link) needs them: a link in angle         *)
(* brackets whose new text does not need them loses them, the range of     *)
(* the edit being one character wider on each side; one that needs them    *)
(* keeps one pair around the escaped text; and a bare link whose new text  *)
(* needs them gets one pair around it.                                     *)
(***************************************************************************)
C19_AngleBracketsIffNeeded ==
    lpc = "edited" =>
        /\ Slice(ApplyTextEdit(doc, result), 0, TargetStart) = Slice(doc, 0, TargetStart)
        /\ Slice(ApplyTextEdit(doc, result),
                 Len(ApplyTextEdit(doc, result)) - (Len(doc) - TargetEnd),
                 Len(ApplyTextEdit(doc, result))) = Slice(doc, TargetEnd, Len(doc))
        /\ IF needsAngleBracketLink(NewTargetText)
           THEN /\ Len(NewTarget) >= 2
                /\ NewTarget[1] = "<" /\ NewTarget[Len(NewTarget)] = ">"
                /\ Unescaped(Slice(NewTarget, 1, Len(NewTarget) - 1)) = NewTargetText
                /\ \A i \in 2..(Len(NewTarget) - 1) :
                      NewTarget[i] \in {"<", ">"} => NewTarget[i - 1] = BS
                /\ result.range = request.link.source.hrefRange
           ELSE /\ NewTarget = NewTargetText
                /\ request.link.source.isAngleBracketLink =>
                      result.range =
                          Rng(translatePosition(request.link.source.hrefRange.start, 0, -1),
                              translatePosition(request.link.source.hrefRange.end, 0, 1))

C19_Witness ==
    /\ lpc = "edited"
    /\ request.link.source.isAngleBracketLink
    /\ request.link.href.fragment # <<>>
    /\ ~needsAngleBracketLink(NewTargetText)
    /\ result.range # request.link.source.hrefRange
====
